---- MODULE Spec2Model ----
(***************************************************************************)
(* Scout (scout-postman-monitor): directory scanner, identity resolver,    *)
(* scheduler (orchestrator), results store and the latest-results view.    *)
(*                                                                         *)
(* Strings are sequences of one-character strings, so that lower-casing,   *)
(* suffix stripping and concatenation are computed as the Go code does.    *)
(* A Go pointer that may be nil is a record [some |-> FALSE] or            *)
(* [some |-> TRUE, val |-> v].                                             *)
(***************************************************************************)
EXTENDS Integers, Sequences, FiniteSets, TLC

(***************************************************************************)
(* Strings                                                                 *)
(***************************************************************************)
None == [some |-> FALSE]
Some(v) == [some |-> TRUE, val |-> v]

UpperToLower ==
  [c \in {"A", "B", "C", "D", "E", "F", "G", "H", "I", "J", "K", "L", "M",
          "N", "O", "P", "Q", "R", "S", "T", "U", "V", "W", "X", "Y", "Z"} |->
     CASE c = "A" -> "a" [] c = "B" -> "b" [] c = "C" -> "c" [] c = "D" -> "d"
       [] c = "E" -> "e" [] c = "F" -> "f" [] c = "G" -> "g" [] c = "H" -> "h"
       [] c = "I" -> "i" [] c = "J" -> "j" [] c = "K" -> "k" [] c = "L" -> "l"
       [] c = "M" -> "m" [] c = "N" -> "n" [] c = "O" -> "o" [] c = "P" -> "p"
       [] c = "Q" -> "q" [] c = "R" -> "r" [] c = "S" -> "s" [] c = "T" -> "t"
       [] c = "U" -> "u" [] c = "V" -> "v" [] c = "W" -> "w" [] c = "X" -> "x"
       [] c = "Y" -> "y" [] c = "Z" -> "z"]

\* strings.ToLower
ToLower(s) ==
  [i \in 1..Len(s) |-> IF s[i] \in DOMAIN UpperToLower THEN UpperToLower[s[i]] ELSE s[i]]

\* strings.HasSuffix
HasSuffix(s, suffix) ==
  /\ Len(s) >= Len(suffix)
  /\ SubSeq(s, Len(s) - Len(suffix) + 1, Len(s)) = suffix

\* strings.TrimSuffix: the suffix is compared byte for byte (case-sensitively)
TrimSuffix(s, suffix) ==
  IF HasSuffix(s, suffix) THEN SubSeq(s, 1, Len(s) - Len(suffix)) ELSE s

\* strings.Contains
Contains(s, sub) ==
  \E i \in 1..(Len(s) + 1) :
    /\ i + Len(sub) - 1 <= Len(s)
    /\ SubSeq(s, i, i + Len(sub) - 1) = sub

CollectionSuffix ==
  <<".", "p", "o", "s", "t", "m", "a", "n", "_", "c", "o", "l", "l", "e", "c",
    "t", "i", "o", "n", ".", "j", "s", "o", "n">>

EnvironmentSuffix ==
  <<".", "p", "o", "s", "t", "m", "a", "n", "_", "e", "n", "v", "i", "r", "o",
    "n", "m", "e", "n", "t", ".", "j", "s", "o", "n">>

JsonSuffix == <<".", "j", "s", "o", "n">>

EnvPlaceholder == <<"e", "n", "v">>

Underscore == <<"_">>

(***************************************************************************)
(* Identity resolver                                                       *)
(***************************************************************************)
\* faulty variant: the environment name is joined as it was given
GenerateCompositeKeyLiteralEnvironment(directoryName, environmentName, collectionFileName) ==
  LET collectionName == TrimSuffix(collectionFileName, CollectionSuffix)
      envName == IF environmentName.some /\ environmentName.val # << >>
                 THEN environmentName.val
                 ELSE EnvPlaceholder
      dir == ToLower(directoryName)
      col == ToLower(collectionName)
  IN  [key |-> dir \o Underscore \o envName \o Underscore \o col,
       directory |-> dir, environment |-> envName, collection |-> col]

\* GenerateCompositeKey(directoryName, environmentName *string, collectionFileName)
GenerateCompositeKey(directoryName, environmentName, collectionFileName) ==
  LET collectionName == TrimSuffix(collectionFileName, CollectionSuffix)
      envName == IF environmentName.some /\ environmentName.val # << >>
                 THEN environmentName.val
                 ELSE EnvPlaceholder
      dir == ToLower(directoryName)
      env == ToLower(envName)
      col == ToLower(collectionName)
  IN  [key |-> dir \o Underscore \o env \o Underscore \o col,
       directory |-> dir, environment |-> env, collection |-> col]

(***************************************************************************)
(* Directory scanner.  A filesystem is                                     *)
(*   [exists, readable : BOOLEAN, entries : Seq(entry)]                    *)
(* with entries in the order os.ReadDir returns them (sorted by name); an  *)
(* entry is [name, isDir, readable, files] and a file is                   *)
(* [name, isDir, content], content being [kind |-> "unreadable"],          *)
(* [kind |-> "malformed"] or [kind |-> "json", name |-> s].                *)
(***************************************************************************)
\* faulty variant: without a "name" the whole file name becomes the name
parseEnvironmentFileKeepsSuffix(subdirName, file) ==
  IF file.content.kind # "json"
  THEN [ok |-> FALSE]
  ELSE [ok |-> TRUE,
        env |-> [Name |-> IF file.content.name = << >>
                          THEN file.name
                          ELSE file.content.name,
                 FileName |-> file.name,
                 FullPath |-> <<subdirName, file.name>>]]

\* faulty variant: a file that cannot be read or parsed is taken as an
\* environment named after the file
parseEnvironmentFileLenient(subdirName, file) ==
  [ok |-> TRUE,
   env |-> [Name |-> IF file.content.kind # "json" \/ file.content.name = << >>
                     THEN TrimSuffix(file.name, EnvironmentSuffix)
                     ELSE file.content.name,
            FileName |-> file.name,
            FullPath |-> <<subdirName, file.name>>]]

\* parseEnvironmentFile: [ok |-> FALSE] on a read or JSON error
parseEnvironmentFile(subdirName, file) ==
  IF file.content.kind # "json"
  THEN [ok |-> FALSE]
  ELSE [ok |-> TRUE,
        env |-> [Name |-> IF file.content.name = << >>
                          THEN TrimSuffix(file.name, EnvironmentSuffix)
                          ELSE file.content.name,
                 FileName |-> file.name,
                 FullPath |-> <<subdirName, file.name>>]]

\* the file loop of scanSubdirectory: the environment files found, in order
RECURSIVE EnvironmentFilesOf(_, _)
EnvironmentFilesOf(subdirName, files) ==
  IF files = << >> THEN << >>
  ELSE LET f == Head(files)
           rest == EnvironmentFilesOf(subdirName, Tail(files))
       IN  IF f.isDir \/ ~HasSuffix(ToLower(f.name), JsonSuffix) THEN rest
           ELSE IF Contains(ToLower(f.name), EnvironmentSuffix)
                THEN LET p == parseEnvironmentFile(subdirName, f)
                     IN  IF p.ok THEN <<p.env>> \o rest ELSE rest
                ELSE rest

\* the file loop of scanSubdirectory: the collection files found, in order
RECURSIVE CollectionFilesOf(_, _)
CollectionFilesOf(subdirName, files) ==
  IF files = << >> THEN << >>
  ELSE LET f == Head(files)
           rest == CollectionFilesOf(subdirName, Tail(files))
       IN  IF f.isDir \/ ~HasSuffix(ToLower(f.name), JsonSuffix) THEN rest
           ELSE IF Contains(ToLower(f.name), EnvironmentSuffix) THEN rest
                ELSE <<[Name |-> f.name, FullPath |-> <<subdirName, f.name>>]>> \o rest

\* Environment: &envFile inside "for _, envFile := range environmentFiles".
\* With one loop variable per iteration every group points at its own
\* environment; with one variable per loop (Go before 1.22) every pointer
\* aliases the variable, which holds the last element once the loop is over.
GroupEnvironment(environmentFiles, i, perIteration) ==
  IF perIteration THEN environmentFiles[i]
  ELSE environmentFiles[Len(environmentFiles)]

\* faulty variant: a directory without environment file yields no group
scanSubdirectoryEnvironmentsOnly(entry, perIteration) ==
  IF ~entry.readable THEN [ok |-> FALSE]
  ELSE LET environmentFiles == EnvironmentFilesOf(entry.name, entry.files)
           collectionFiles == CollectionFilesOf(entry.name, entry.files)
       IN  [ok |-> TRUE,
            groups |->
              [i \in 1..Len(environmentFiles) |->
                 [Directory |-> entry.name,
                  Environment |-> Some(GroupEnvironment(environmentFiles, i, perIteration)),
                  Collections |-> collectionFiles]]]

\* scanSubdirectory: [ok |-> FALSE] when the subdirectory cannot be read
scanSubdirectory(entry, perIteration) ==
  IF ~entry.readable THEN [ok |-> FALSE]
  ELSE LET environmentFiles == EnvironmentFilesOf(entry.name, entry.files)
           collectionFiles == CollectionFilesOf(entry.name, entry.files)
       IN  [ok |-> TRUE,
            groups |->
              IF Len(environmentFiles) > 0
              THEN [i \in 1..Len(environmentFiles) |->
                      [Directory |-> entry.name,
                       Environment |-> Some(GroupEnvironment(environmentFiles, i, perIteration)),
                       Collections |-> collectionFiles]]
              ELSE IF Len(collectionFiles) > 0
                   THEN <<[Directory |-> entry.name,
                           Environment |-> None,
                           Collections |-> collectionFiles]>>
                   ELSE << >>]

\* faulty variant: a subdirectory that cannot be read ends the loop
RECURSIVE ScanEntriesStopAtError(_, _)
ScanEntriesStopAtError(entries, perIteration) ==
  IF entries = << >> THEN << >>
  ELSE LET e == Head(entries)
           rest == ScanEntriesStopAtError(Tail(entries), perIteration)
       IN  IF ~e.isDir THEN rest
           ELSE IF Contains(e.name, <<" ">>) THEN rest
           ELSE LET r == scanSubdirectory(e, perIteration)
                IN  IF r.ok THEN r.groups \o rest ELSE << >>

\* the entry loop of ScanGroups
RECURSIVE ScanEntries(_, _)
ScanEntries(entries, perIteration) ==
  IF entries = << >> THEN << >>
  ELSE LET e == Head(entries)
           rest == ScanEntries(Tail(entries), perIteration)
       IN  IF ~e.isDir THEN rest
           ELSE IF Contains(e.name, <<" ">>) THEN rest
           ELSE LET r == scanSubdirectory(e, perIteration)
                IN  IF r.ok THEN r.groups \o rest ELSE rest

\* ScanGroups: [ok |-> FALSE] is the error return (root missing or unreadable)
ScanGroups(filesystem, perIteration) ==
  IF ~filesystem.exists \/ ~filesystem.readable
  THEN [ok |-> FALSE, groups |-> << >>]
  ELSE [ok |-> TRUE, groups |-> ScanEntries(filesystem.entries, perIteration)]

(***************************************************************************)
(* Runner adapter.  Execute blocks until the external process ends; it     *)
(* returns a parsed NewmanResult (with or without a top-level error) or    *)
(* no result at all when the output cannot be parsed.                      *)
(***************************************************************************)
\* Execute's view of its arguments: the command line handed to node
ExecuteArgs(collectionPath, environmentPath, directoryName, environmentName) ==
  [collection |-> collectionPath,
   environment |-> IF environmentPath.some /\ environmentPath.val # << >>
                   THEN environmentPath.val ELSE << >>,
   directory |-> directoryName,
   environmentName |-> IF environmentName.some /\ environmentName.val # << >>
                       THEN environmentName.val ELSE << >>]

\* a NewmanResult whose one assertion passed and links to a reported request
ResultPass ==
  [CollectionName |-> <<"N">>,
   TimestampOk |-> TRUE,
   Summary |-> [Total |-> 1, Passed |-> 1, Failed |-> 0],
   Tests |-> <<[Name |-> <<"t">>, Passed |-> TRUE, Error |-> None,
                ExecutionName |-> <<"r">>]>>,
   Executions |-> <<[Name |-> <<"r">>, URL |-> <<"u">>, Method |-> <<"G">>,
                     Status |-> <<"O", "K">>, StatusCode |-> Some(200),
                     ResponseTime |-> Some(5)]>>,
   Error |-> None]

\* a NewmanResult carrying a top-level error, its assertion failed and linked
\* to a request that was not reported
ResultError ==
  [CollectionName |-> <<"M">>,
   TimestampOk |-> TRUE,
   Summary |-> [Total |-> 1, Passed |-> 0, Failed |-> 1],
   Tests |-> <<[Name |-> <<"t">>, Passed |-> FALSE, Error |-> Some(<<"x">>),
                ExecutionName |-> <<"q">>]>>,
   Executions |-> << >>,
   Error |-> Some(<<"b">>)]

\* a NewmanResult of a collection without any assertion
ResultEmpty ==
  [CollectionName |-> <<"N">>,
   TimestampOk |-> TRUE,
   Summary |-> [Total |-> 0, Passed |-> 0, Failed |-> 0],
   Tests |-> << >>,
   Executions |-> << >>,
   Error |-> None]

RunnerResults == {ResultPass, ResultError, ResultEmpty}

\* a NewmanResult with two assertions and two reported requests of the same
\* name: the first assertion links to that name, the second to no request
ResultJoined ==
  [CollectionName |-> <<"J">>,
   TimestampOk |-> TRUE,
   Summary |-> [Total |-> 2, Passed |-> 1, Failed |-> 1],
   Tests |-> <<[Name |-> <<"s">>, Passed |-> TRUE, Error |-> None,
                ExecutionName |-> <<"r">>],
               [Name |-> <<"t">>, Passed |-> FALSE, Error |-> Some(<<"x">>),
                ExecutionName |-> <<"q">>]>>,
   Executions |-> <<[Name |-> <<"r">>, URL |-> <<"u">>, Method |-> <<"G">>,
                     Status |-> <<"O", "K">>, StatusCode |-> Some(200),
                     ResponseTime |-> Some(5)],
                    [Name |-> <<"r">>, URL |-> <<"v">>, Method |-> <<"P">>,
                     Status |-> <<"K", "O">>, StatusCode |-> None,
                     ResponseTime |-> Some(7)]>>,
   Error |-> None]

\* the collection file whose requests give ResultJoined
CollectionJ == <<"j", ".", "j", "s", "o", "n">>

\* what the Runner reports for a collection file: the name comes from the
\* file and the assertions from the requests it holds
RunnerOutputs(collectionFileName) ==
  IF HasSuffix(collectionFileName, CollectionSuffix) THEN {ResultPass}
  ELSE IF collectionFileName = CollectionJ THEN {ResultJoined}
  ELSE {ResultError}

(***************************************************************************)
(* Results store (PostgreSQL tables collections, test_executions and       *)
(* test_results).  Every statement is one atomic step of the database.     *)
(***************************************************************************)
EmptyStore ==
  [collections |-> {}, executions |-> {}, testResults |-> {},
   nextCollectionId |-> 1, nextExecutionId |-> 1, nextResultId |-> 1]

\* faulty variant: a plain INSERT, without the ON CONFLICT clause
UpsertCollectionInsertOnly(st, name, filePath, compositeKey, directoryName, environmentName, collectionName) ==
  LET new == [id |-> st.nextCollectionId, name |-> name, filePath |-> filePath,
              compositeKey |-> compositeKey, directoryName |-> directoryName,
              environmentName |-> environmentName,
              collectionName |-> collectionName]
  IN  [store |-> [st EXCEPT !.collections = @ \cup {new},
                            !.nextCollectionId = @ + 1],
       row |-> new]

\* UpsertCollection: INSERT ... ON CONFLICT (composite_key) DO UPDATE SET name
UpsertCollection(st, name, filePath, compositeKey, directoryName, environmentName, collectionName) ==
  IF \E r \in st.collections : r.compositeKey = compositeKey
  THEN LET old == CHOOSE r \in st.collections : r.compositeKey = compositeKey
           new == [old EXCEPT !.name = name]
       IN  [store |-> [st EXCEPT !.collections = (@ \ {old}) \cup {new}],
            row |-> new]
  ELSE LET new == [id |-> st.nextCollectionId, name |-> name, filePath |-> filePath,
                   compositeKey |-> compositeKey, directoryName |-> directoryName,
                   environmentName |-> environmentName,
                   collectionName |-> collectionName]
       IN  [store |-> [st EXCEPT !.collections = @ \cup {new},
                                 !.nextCollectionId = @ + 1],
            row |-> new]

\* faulty variant: the top-level error of the result is not stored
ExecutionRecordWithoutError(result, collectionId, startTime, runnerTime) ==
  [collectionId |-> collectionId,
   collectionName |-> result.CollectionName,
   startedAt |-> IF result.TimestampOk THEN runnerTime ELSE startTime,
   totalTests |-> result.Summary.Total,
   passedTests |-> result.Summary.Passed,
   failedTests |-> result.Summary.Failed,
   error |-> None]

\* the TestExecution built by executeCollection from the Runner's result
\* (runnerTime is result.Timestamp, which the Runner takes when it starts)
ExecutionRecord(result, collectionId, startTime, runnerTime) ==
  [collectionId |-> collectionId,
   collectionName |-> result.CollectionName,
   startedAt |-> IF result.TimestampOk THEN runnerTime ELSE startTime,
   totalTests |-> result.Summary.Total,
   passedTests |-> result.Summary.Passed,
   failedTests |-> result.Summary.Failed,
   error |-> result.Error]

\* CreateTestExecution: INSERT INTO test_executions ... RETURNING id
CreateTestExecution(st, exec) ==
  LET row == [id |-> st.nextExecutionId] @@ exec
  IN  [store |-> [st EXCEPT !.executions = @ \cup {row}, !.nextExecutionId = @ + 1],
       row |-> row]

\* faulty variant: the loop does not break and the last match wins
MatchingExecutionLast(executions, executionName) ==
  LET found == {k \in 1..Len(executions) : executions[k].Name = executionName}
  IN  IF found = {} THEN None
      ELSE Some(executions[CHOOSE k \in found : \A j \in found : j <= k])

\* the first request execution whose name equals the assertion's
\* ExecutionName, as the inner loop of executeCollection finds it
RECURSIVE MatchingExecution(_, _)
MatchingExecution(executions, executionName) ==
  IF executions = << >> THEN None
  ELSE IF Head(executions).Name = executionName THEN Some(Head(executions))
  ELSE MatchingExecution(Tail(executions), executionName)

\* the TestResult built by executeCollection for one assertion
TestResultRecord(result, test, executionId) ==
  LET m == MatchingExecution(result.Executions, test.ExecutionName)
  IN  [executionId |-> executionId,
       testName |-> test.Name,
       executionName |-> Some(test.ExecutionName),
       url |-> IF m.some THEN Some(m.val.URL) ELSE None,
       method |-> IF m.some THEN Some(m.val.Method) ELSE None,
       status |-> IF m.some THEN m.val.Status ELSE <<"u", "n", "k", "n", "o", "w", "n">>,
       statusCode |-> IF m.some THEN m.val.StatusCode ELSE None,
       responseTimeMs |-> IF m.some THEN m.val.ResponseTime ELSE None,
       passed |-> test.Passed,
       error |-> test.Error]

\* CreateTestResult: INSERT INTO test_results ... RETURNING id
CreateTestResult(st, tr) ==
  [st EXCEPT !.testResults = @ \cup {[id |-> st.nextResultId] @@ tr},
             !.nextResultId = @ + 1]

\* faulty variant: the loop returns at the first CreateTestResult that fails
RECURSIVE StoreTestResultsStopAtFailure(_, _, _, _, _)
StoreTestResultsStopAtFailure(st, result, executionId, i, failed) ==
  IF i > Len(result.Tests) \/ i \in failed THEN st
  ELSE StoreTestResultsStopAtFailure(
         CreateTestResult(st, TestResultRecord(result, result.Tests[i], executionId)),
         result, executionId, i + 1, failed)

\* the "for _, test := range result.Tests" loop of executeCollection; a
\* write in the set failed (indices into result.Tests) is lost and logged
RECURSIVE StoreTestResults(_, _, _, _, _)
StoreTestResults(st, result, executionId, i, failed) ==
  IF i > Len(result.Tests) THEN st
  ELSE StoreTestResults(
         IF i \in failed THEN st
         ELSE CreateTestResult(st, TestResultRecord(result, result.Tests[i], executionId)),
         result, executionId, i + 1, failed)

(***************************************************************************)
(* Results aggregator (GetLatestResults) and its queries                   *)
(***************************************************************************)
\* byte order of the characters used in names
CharOrder ==
  <<" ", ".", "A", "B", "C", "D", "E", "F", "G", "H", "I", "J", "K", "L", "M",
    "N", "O", "P", "Q", "R", "S", "T", "U", "V", "W", "X", "Y", "Z", "_",
    "a", "b", "c", "d", "e", "f", "g", "h", "i", "j", "k", "l", "m",
    "n", "o", "p", "q", "r", "s", "t", "u", "v", "w", "x", "y", "z">>

CharRank(c) == CHOOSE i \in 1..Len(CharOrder) : CharOrder[i] = c

\* a <= b in the order of ORDER BY on a text column (bytewise collation)
RECURSIVE StrLeq(_, _)
StrLeq(a, b) ==
  IF a = << >> THEN TRUE
  ELSE IF b = << >> THEN FALSE
  ELSE IF Head(a) = Head(b) THEN StrLeq(Tail(a), Tail(b))
  ELSE CharRank(Head(a)) < CharRank(Head(b))

\* all orders in which the members of a finite set can be listed
RECURSIVE Orderings(_)
Orderings(S) ==
  IF S = {} THEN {<< >>}
  ELSE UNION {{<<x>> \o rest : rest \in Orderings(S \ {x})} : x \in S}

\* the rows the view latest_test_executions may hold: for every collection_id
\* one execution of greatest started_at (DISTINCT ON (collection_id) ...
\* ORDER BY collection_id, started_at DESC names no order among equal
\* started_at, so any of them may be the one kept)
LatestExecutionSets(st) ==
  LET ids == {e.collectionId : e \in st.executions}
      top(id) == {e \in st.executions :
                    /\ e.collectionId = id
                    /\ \A f \in st.executions :
                         f.collectionId = id => f.startedAt <= e.startedAt}
      picks == {f \in [ids -> st.executions] : \A id \in ids : f[id] \in top(id)}
  IN  {{f[id] : id \in ids} : f \in picks}

\* GetLatestExecutions: the view's rows ORDER BY collection_name (rows of
\* equal collection_name in any order)
GetLatestExecutions(st) ==
  UNION {{o \in Orderings(rows) :
            \A i, j \in 1..Len(o) :
              i < j => StrLeq(o[i].collectionName, o[j].collectionName)}
         : rows \in LatestExecutionSets(st)}

\* the query without its total_tests > 0 condition
GetLastSuccessfulExecutionAnyTotal(st, collectionId) ==
  LET ok == {e \in st.executions :
               e.collectionId = collectionId /\ e.failedTests = 0}
  IN  IF ok = {} THEN {None}
      ELSE {Some(e) : e \in {x \in ok : \A f \in ok : f.startedAt <= x.startedAt}}

\* GetLastSuccessfulExecution: failed_tests = 0 AND total_tests > 0
\* ORDER BY started_at DESC LIMIT 1; the set of rows the query may return
\* (None when no row qualifies)
GetLastSuccessfulExecution(st, collectionId) ==
  LET ok == {e \in st.executions :
               e.collectionId = collectionId /\ e.failedTests = 0 /\ e.totalTests > 0}
  IN  IF ok = {} THEN {None}
      ELSE {Some(e) : e \in {x \in ok : \A f \in ok : f.startedAt <= x.startedAt}}

\* GetTestResultsByExecutionID (as a set; ORDER BY test_name orders it)
GetTestResultsByExecutionID(st, executionId) ==
  {r \in st.testResults : r.executionId = executionId}

\* Execution: &exec inside "for _, exec := range executions": the execution a
\* CollectionResult shows once the loop is over (see GroupEnvironment)
ResultExecution(executions, i, perIteration) ==
  IF perIteration THEN executions[i] ELSE executions[Len(executions)]

\* the loop of GetLatestResults that builds collectionResults: the sequences
\* it may build from the executions read (an execution whose collection is
\* not among the collections read is skipped)
RECURSIVE CollectionResultsFrom(_, _, _, _, _)
CollectionResultsFrom(st, collections, executions, i, perIteration) ==
  IF i > Len(executions) THEN {<< >>}
  ELSE LET exec == executions[i]
           rest == CollectionResultsFrom(st, collections, executions, i + 1, perIteration)
           cols == {c \in collections : c.id = exec.collectionId}
       IN  IF cols = {} THEN rest
           ELSE {<<[Collection |-> CHOOSE c \in cols : TRUE,
                    Execution |-> Some(ResultExecution(executions, i, perIteration)),
                    LastSuccessExecution |-> ls,
                    Results |-> GetTestResultsByExecutionID(st, exec.id)]>> \o r
                 : ls \in GetLastSuccessfulExecution(st, exec.collectionId), r \in rest}

\* the (directory, environment) keys of groupMap
GroupKeys(collectionResults) ==
  {<<collectionResults[i].Collection.directoryName,
     collectionResults[i].Collection.environmentName>> : i \in 1..Len(collectionResults)}

\* one EnvironmentGroup of GetLatestResults
EnvironmentGroupOf(collectionResults, key) ==
  [Directory |-> key[1],
   Environment |-> IF key[2] # << >> /\ key[2] # EnvPlaceholder
                   THEN Some([Name |-> key[2], FileName |-> key[2] \o EnvironmentSuffix])
                   ELSE None,
   Collections |-> SelectSeq(collectionResults,
                     LAMBDA cr : <<cr.Collection.directoryName,
                                   cr.Collection.environmentName>> = key)]

\* GetLatestResults: the LatestResults values one call may return for a
\* store (the groups come out of a Go map, in any order); error returns are
\* decided by the caller of this operator
GetLatestResults(st, perIteration) ==
  UNION {UNION {{[EnvironmentGroups |->
                    [k \in 1..Len(keys) |-> EnvironmentGroupOf(crs, keys[k])]]
                 : keys \in Orderings(GroupKeys(crs))}
                : crs \in CollectionResultsFrom(st, st.collections, executions, 1, perIteration)}
         : executions \in GetLatestExecutions(st)}

(***************************************************************************)
(* GET /api/results                                                        *)
(***************************************************************************)
\* all CollectionResults of a LatestResults, group after group
RECURSIVE FlattenGroups(_)
FlattenGroups(environmentGroups) ==
  IF environmentGroups = << >> THEN << >>
  ELSE Head(environmentGroups).Collections \o FlattenGroups(Tail(environmentGroups))

\* filepath.Base of a path <<directory, file name>>
Base(fullPath) == fullPath[2]

\* the composite key handleResults computes for a collection of a group
ResultsKey(group, col) ==
  GenerateCompositeKey(group.Directory,
                       IF group.Environment.some
                       THEN Some(group.Environment.val.Name) ELSE None,
                       Base(col.FullPath))

\* the CollectionResult handleResults emits for one collection of one group
ResultFor(storageResults, group, col) ==
  LET k == ResultsKey(group, col)
      all == FlattenGroups(storageResults.EnvironmentGroups)
      found == {i \in 1..Len(all) : all[i].Collection.compositeKey = k.key}
  IN  IF found # {}
      THEN all[CHOOSE i \in found : \A j \in found : j <= i]
      ELSE [Collection |-> [id |-> 0, name |-> col.Name, filePath |-> col.FullPath,
                            compositeKey |-> k.key, directoryName |-> k.directory,
                            environmentName |-> k.environment,
                            collectionName |-> k.collection],
            Execution |-> None,
            LastSuccessExecution |-> None,
            Results |-> {}]

\* handleResults: the response body built from the scan and the store's results
handleResults(groups, storageResults) ==
  [EnvironmentGroups |->
     [g \in 1..Len(groups) |->
        [Directory |-> groups[g].Directory,
         Environment |-> IF groups[g].Environment.some
                         THEN Some([Name |-> groups[g].Environment.val.Name,
                                    FileName |-> groups[g].Environment.val.FileName])
                         ELSE None,
         Collections |-> [c \in 1..Len(groups[g].Collections) |->
                            ResultFor(storageResults, groups[g], groups[g].Collections[c])]]]]

(***************************************************************************)
(* Filesystems the collections directory may hold                          *)
(***************************************************************************)
CollectionA == <<"a">> \o CollectionSuffix
CollectionB == <<"b">> \o JsonSuffix
EnvironmentD == <<"d">> \o EnvironmentSuffix
EnvironmentE == <<"e">> \o EnvironmentSuffix
EnvironmentP == <<"p">> \o EnvironmentSuffix

File(name, content) == [name |-> name, isDir |-> FALSE, content |-> content]
Json(name) == [kind |-> "json", name |-> name]
Dir(name, files) == [name |-> name, isDir |-> TRUE, readable |-> TRUE, files |-> files]

\* the root directory does not exist
FsMissing == [exists |-> FALSE, readable |-> FALSE, entries |-> << >>]

\* nothing to run: a subdirectory whose name has a space, and a loose file
FsNoGroups ==
  [exists |-> TRUE, readable |-> TRUE,
   entries |-> <<File(CollectionA, Json(<< >>)),
                 Dir(<<"x", " ", "y">>, <<File(CollectionA, Json(<< >>))>>)>>]

\* one collection and one environment file whose JSON names it "Q"
FsNamedEnv ==
  [exists |-> TRUE, readable |-> TRUE,
   entries |-> <<Dir(<<"D">>, <<File(CollectionA, Json(<< >>)),
                                File(EnvironmentP, Json(<<"Q">>))>>)>>]

\* two collections and no environment file
FsTwoCollections ==
  [exists |-> TRUE, readable |-> TRUE,
   entries |-> <<Dir(<<"d">>, <<File(CollectionA, Json(<< >>)),
                                File(CollectionB, Json(<< >>))>>)>>]

\* one collection and two environment files without a "name"
FsTwoEnvironments ==
  [exists |-> TRUE, readable |-> TRUE,
   entries |-> <<Dir(<<"d">>, <<File(CollectionA, Json(<< >>)),
                                File(EnvironmentD, Json(<< >>)),
                                File(EnvironmentE, Json(<< >>))>>)>>]

FileSystems == {FsMissing, FsNoGroups, FsNamedEnv, FsTwoCollections, FsTwoEnvironments}

\* one collection and two environment files whose JSON gives both the name "Q"
FsSameName ==
  [exists |-> TRUE, readable |-> TRUE,
   entries |-> <<Dir(<<"d">>, <<File(CollectionA, Json(<< >>)),
                                File(EnvironmentD, Json(<<"Q">>)),
                                File(EnvironmentE, Json(<<"Q">>))>>)>>]

(***************************************************************************)
(* Bounds                                                                  *)
(***************************************************************************)
MaxCycles == 3
MaxUnits == 4
MaxFaults == 1

\* main hands NewScheduler a MetricsUpdater (the Prometheus exporter)
metricsUpdater == TRUE

(***************************************************************************)
(* State                                                                   *)
(***************************************************************************)
VARIABLES
  filesystem,      \* the collections directory as it is now
  perIteration,    \* the build gives range loops one variable per iteration
  faults,          \* how many failures have been injected from outside
  faultBudget,     \* how many failures the outside injects at most
  ctxDone,         \* Scheduler.ctx has been cancelled
  mainPc,          \* main: "init", "startRun", "serving", "stopping", "stopped"
  loopPc,          \* the ticker goroutine: "none", "select", "running", "exited"
  loopCycle,       \* the cycle Start or the ticker goroutine is running
  tickPending,     \* a tick is waiting in ticker.C
  clock,           \* time.Now()
  lastRunTime, totalRuns, failedRuns,   \* Scheduler statistics
  cycles,          \* every call of runOnce, in the order they were made
  store,           \* the database
  published,       \* the results last handed to UpdateMetrics
  requests         \* the HTTP requests answered so far, and the calls of
                   \* GetLatestResults followed read by read

vars ==
  <<filesystem, faults, faultBudget, perIteration, ctxDone, mainPc, loopPc,
    loopCycle, tickPending, clock, lastRunTime, totalRuns, failedRuns, cycles,
    store, published, requests>>

schedulerVars == <<ctxDone, mainPc, loopPc, loopCycle, tickPending>>
statsVars == <<lastRunTime, totalRuns, failedRuns>>
configVars == <<perIteration, faultBudget>>

InitWith(fileSystems, budget) ==
  /\ filesystem \in fileSystems
  /\ perIteration \in BOOLEAN
  /\ faults = 0
  /\ faultBudget = budget
  /\ ctxDone = FALSE
  /\ mainPc = "init"
  /\ loopPc = "none"
  /\ loopCycle = 0
  /\ tickPending = FALSE
  /\ clock = 0
  /\ lastRunTime = 0
  /\ totalRuns = 0
  /\ failedRuns = 0
  /\ cycles = << >>
  /\ store = EmptyStore
  /\ published = None
  /\ requests = << >>

Init == InitWith(FileSystems, MaxFaults)

(***************************************************************************)
(* Run cycles (runOnce)                                                    *)
(***************************************************************************)
\* a call of runOnce that has executed its first statements (the statistics
\* are updated) and is about to scan
\* (hist records the phases passed; atStop marks a cycle that was waiting for
\* its units when Stop was called and has not yet passed its wg.Wait;
\* readError marks a failed GetLatestResults; no action reads them)
NewCycle(trigger, now) ==
  [trigger |-> trigger, phase |-> "Scanning", hist |-> <<"Idle", "Scanning">>,
   beginTime |-> now, scanOk |-> FALSE, groups |-> << >>, units |-> << >>,
   reads |-> 0, readError |-> FALSE, updates |-> 0, snapshot |-> None,
   atStop |-> FALSE]

Ended(c) == cycles[c].phase = "Idle"
InFlight(c) == ~Ended(c)

\* the cycle record moved to another phase
Moved(cy, phase) ==
  [cy EXCEPT !.phase = phase, !.hist = Append(@, phase),
             !.atStop = IF phase \in {"Aggregating", "Idle"} THEN FALSE ELSE @]

\* the arguments runOnce hands to the goroutine of one collection of one group
UnitArgs(group, col) ==
  [col |-> col,
   environmentPath |-> IF group.Environment.some
                       THEN Some(group.Environment.val.FullPath) ELSE None,
   directoryName |-> group.Directory,
   environmentName |-> IF group.Environment.some
                       THEN Some(TrimSuffix(group.Environment.val.FileName, EnvironmentSuffix))
                       ELSE None]

\* the goroutines runOnce starts, in the order of its two loops.  A goroutine
\* touches nothing shared before Execute returns, so each is taken here up to
\* its call of Execute: startTime := time.Now(), GenerateCompositeKey, and
\* s.executor.Execute(...) invoked once and blocking
RECURSIVE UnitsOf(_, _, _)
UnitsOf(groups, g, now) ==
  IF g > Len(groups) THEN << >>
  ELSE [c \in 1..Len(groups[g].Collections) |->
          [g |-> g, c |-> c, args |-> UnitArgs(groups[g], groups[g].Collections[c]),
           st |-> "running", failure |-> "", invocations |-> 1, startTime |-> now,
           result |-> None, collectionId |-> 0, executionId |-> 0]]
       \o UnitsOf(groups, g + 1, now)

\* the composite key executeCollection computes for a unit
UnitKey(unit) ==
  GenerateCompositeKey(unit.args.directoryName, unit.args.environmentName,
                       Base(unit.args.col.FullPath))

\* the arguments executeCollection passes to Execute
UnitExecuteArgs(unit) ==
  LET k == UnitKey(unit)
  IN  ExecuteArgs(unit.args.col.FullPath, unit.args.environmentPath, k.directory,
                  IF k.environment = EnvPlaceholder THEN None ELSE Some(k.environment))

\* faulty variant: the increment is not under the mutex, and the update of a
\* cycle that begins while another is in flight is lost
RunsAfterBeginUnlocked(n) ==
  IF \E c \in 1..Len(cycles) : InFlight(c) THEN n ELSE n + 1

\* s.totalRuns++ under s.mu
RunsAfterBegin(n) == n + 1

\* a caller enters runOnce: s.mu.Lock(); s.lastRunTime = time.Now();
\* s.totalRuns++; s.mu.Unlock()
CycleBegin(trigger) ==
  /\ clock' = clock + 1
  /\ lastRunTime' = clock'
  /\ totalRuns' = RunsAfterBegin(totalRuns)
  /\ cycles' = Append(cycles, NewCycle(trigger, clock'))

\* the number of goroutines a scan of the directory would start now
RECURSIVE CountUnits(_)
CountUnits(groups) ==
  IF groups = << >> THEN 0
  ELSE Len(Head(groups).Collections) + CountUnits(Tail(groups))

\* the goroutines the cycles have started or, where a cycle has not come to
\* that yet, will start
RECURSIVE UnitsStarted(_, _)
UnitsStarted(cs, scanSize) ==
  IF cs = << >> THEN 0
  ELSE (IF Head(cs).phase \in {"Scanning", "Dispatching"} THEN scanSize
        ELSE Len(Head(cs).units))
       + UnitsStarted(Tail(cs), scanSize)

\* the bounds of the model leave room for one more cycle
RoomForCycle ==
  LET scanSize == CountUnits(ScanGroups(filesystem, perIteration).groups)
  IN  /\ Len(cycles) < MaxCycles
      /\ UnitsStarted(cycles, scanSize) + scanSize <= MaxUnits

\* faulty variant: the watcher remembers what it has returned, and a scan
\* after the first one that found groups finds none
AfterScanOnlyNew(cy, scan) ==
  IF ~scan.ok THEN Moved(cy, "Idle")
  ELSE IF Len(scan.groups) = 0 \/ \E c \in 1..Len(cycles) : cycles[c].groups # << >>
       THEN [Moved(cy, "Idle") EXCEPT !.scanOk = TRUE]
  ELSE [Moved(cy, "Dispatching") EXCEPT !.scanOk = TRUE, !.groups = scan.groups]

\* faulty variant: no early return when the scan finds no group
AfterScanNoEarlyReturn(cy, scan) ==
  IF ~scan.ok THEN Moved(cy, "Idle")
  ELSE [Moved(cy, "Dispatching") EXCEPT !.scanOk = TRUE, !.groups = scan.groups]

\* the cycle after s.watcher.ScanGroups() and the two early returns
AfterScan(cy, scan) ==
  IF ~scan.ok THEN Moved(cy, "Idle")
  ELSE IF Len(scan.groups) = 0 THEN [Moved(cy, "Idle") EXCEPT !.scanOk = TRUE]
  ELSE [Moved(cy, "Dispatching") EXCEPT !.scanOk = TRUE, !.groups = scan.groups]

\* faulty variant: the failure is counted twice
incrementFailedRunsTwice(n) == n + 2

\* incrementFailedRuns: s.failedRuns++ under the mutex
incrementFailedRuns(n) == n + 1

\* faulty variant: a scan error is logged but not counted
FailedRunsAfterScanUncounted(n, scan) == n

\* the failure counter after the scan (incrementFailedRuns on a scan error)
FailedRunsAfterScan(n, scan) == IF scan.ok THEN n ELSE incrementFailedRuns(n)

\* groups, err := s.watcher.ScanGroups() and what runOnce does with the answer
Scan(c) ==
  /\ c \in 1..Len(cycles)
  /\ cycles[c].phase = "Scanning"
  /\ LET scan == ScanGroups(filesystem, perIteration)
     IN  /\ cycles' = [cycles EXCEPT ![c] = AfterScan(@, scan)]
         /\ failedRuns' = FailedRunsAfterScan(failedRuns, scan)
  /\ UNCHANGED <<requests, filesystem, faults, configVars, schedulerVars, clock, lastRunTime,
                 totalRuns, store, published>>

\* the two loops of runOnce that start one goroutine per collection per group
Dispatch(c) ==
  /\ c \in 1..Len(cycles)
  /\ cycles[c].phase = "Dispatching"
  /\ cycles' = [cycles EXCEPT ![c] =
                  [Moved(@, "AwaitingCompletions") EXCEPT
                     !.units = UnitsOf(cycles[c].groups, 1, clock)]]
  /\ UNCHANGED <<requests, filesystem, faults, configVars, schedulerVars, clock, statsVars,
                 store, published>>

Finished(unit) == unit.st \in {"done", "failed"}

\* faulty variant: wg.Add(1) is called inside the goroutine, so wg.Wait() may
\* return as soon as the goroutines that have got that far are done
AllFinishedSoFar(cy) ==
  Len(cy.units) = 0 \/ \E u \in 1..Len(cy.units) : Finished(cy.units[u])

\* wg.Wait() returns once every goroutine of the cycle has called wg.Done()
AllFinished(cy) == \A u \in 1..Len(cy.units) : Finished(cy.units[u])

\* wg.Wait() and the test of s.metricsUpdater
Join(c) ==
  /\ c \in 1..Len(cycles)
  /\ cycles[c].phase = "AwaitingCompletions"
  /\ AllFinished(cycles[c])
  /\ cycles' = [cycles EXCEPT ![c] =
                  Moved(@, IF metricsUpdater THEN "Aggregating" ELSE "Idle")]
  /\ UNCHANGED <<requests, filesystem, faults, configVars, schedulerVars, clock, statsVars,
                 store, published>>

\* results, err := s.storage.GetLatestResults(): an error ends the cycle
ReadLatest(c) ==
  /\ c \in 1..Len(cycles)
  /\ cycles[c].phase = "Aggregating"
  /\ ~cycles[c].snapshot.some
  /\ \/ /\ \E results \in GetLatestResults(store, perIteration) :
               cycles' = [cycles EXCEPT ![c].reads = @ + 1, ![c].snapshot = Some(results)]
        /\ UNCHANGED faults
     \/ /\ faults < faultBudget
        /\ faults' = faults + 1
        /\ cycles' = [cycles EXCEPT ![c] =
                        [Moved(@, "Idle") EXCEPT !.reads = @ + 1, !.readError = TRUE]]
  /\ UNCHANGED <<requests, filesystem, configVars, schedulerVars, clock, statsVars,
                 store, published>>

\* s.metricsUpdater.UpdateMetrics(results): the gauges are reset and set from
\* results, so they are a function of the results last handed over
UpdateMetrics(c) ==
  /\ c \in 1..Len(cycles)
  /\ cycles[c].phase = "Aggregating"
  /\ cycles[c].snapshot.some
  /\ published' = cycles[c].snapshot
  /\ cycles' = [cycles EXCEPT ![c] =
                  [Moved(@, "Idle") EXCEPT !.updates = @ + 1, !.snapshot = None]]
  /\ UNCHANGED <<requests, filesystem, faults, configVars, schedulerVars, clock, statsVars, store>>

(***************************************************************************)
(* Execution units (executeCollection)                                     *)
(***************************************************************************)
IsUnit(c, u) == c \in 1..Len(cycles) /\ u \in 1..Len(cycles[c].units)

SetUnit(c, u, unit) == cycles' = [cycles EXCEPT ![c].units[u] = unit]

\* faulty variant: Execute is called again after an error
AfterRunnerErrorRetry(unit) == [unit EXCEPT !.invocations = @ + 1]

\* "if result == nil { s.incrementFailedRuns(); return err }": the unit ends
AfterRunnerError(unit) == [unit EXCEPT !.st = "failed", !.failure = "runner"]

\* Execute returns (nil, err): the output could not be parsed
RunnerFails(c, u) ==
  /\ IsUnit(c, u)
  /\ cycles[c].units[u].st = "running"
  /\ faults < faultBudget
  /\ faults' = faults + 1
  /\ SetUnit(c, u, AfterRunnerError(cycles[c].units[u]))
  /\ failedRuns' = incrementFailedRuns(failedRuns)
  /\ UNCHANGED <<requests, filesystem, configVars, schedulerVars, clock, lastRunTime,
                 totalRuns, store, published>>

\* the external process never ends: Execute never returns
RunnerHangs(c, u) ==
  /\ IsUnit(c, u)
  /\ cycles[c].units[u].st = "running"
  /\ faults < faultBudget
  /\ faults' = faults + 1
  /\ SetUnit(c, u, [cycles[c].units[u] EXCEPT !.st = "hung"])
  /\ UNCHANGED <<requests, filesystem, configVars, schedulerVars, clock, statsVars,
                 store, published>>

\* Execute returns a parsed result (err may be set as well: the unit goes on)
\* and the unit calls s.storage.UpsertCollection(result.CollectionName,
\* col.FullPath, compositeKey, dir, env, collName)
RunnerReturns(c, u) ==
  /\ IsUnit(c, u)
  /\ cycles[c].units[u].st = "running"
  /\ \E r \in RunnerOutputs(Base(cycles[c].units[u].args.col.FullPath)) :
       LET unit == [cycles[c].units[u] EXCEPT !.result = Some(r)]
           k == UnitKey(unit)
           up == UpsertCollection(store, r.CollectionName, unit.args.col.FullPath,
                                  k.key, k.directory, k.environment, k.collection)
       IN  \/ /\ store' = up.store
              /\ SetUnit(c, u, [unit EXCEPT !.st = "upserted", !.collectionId = up.row.id])
              /\ UNCHANGED <<failedRuns, faults>>
           \/ /\ faults < faultBudget
              /\ faults' = faults + 1
              /\ SetUnit(c, u, [unit EXCEPT !.st = "failed", !.failure = "upsert",
                                             !.result = None])
              /\ failedRuns' = incrementFailedRuns(failedRuns)
              /\ UNCHANGED store
  /\ UNCHANGED <<requests, filesystem, configVars, schedulerVars, clock, lastRunTime,
                 totalRuns, published>>

\* s.storage.CreateTestExecution(execution)
CreateExecution(c, u) ==
  /\ IsUnit(c, u)
  /\ cycles[c].units[u].st = "upserted"
  /\ LET unit == cycles[c].units[u]
         cr == CreateTestExecution(store,
                 ExecutionRecord(unit.result.val, unit.collectionId, unit.startTime,
                                 unit.startTime))
     IN  \/ /\ store' = cr.store
            /\ SetUnit(c, u, [unit EXCEPT !.st = "stored", !.executionId = cr.row.id])
            /\ UNCHANGED <<failedRuns, faults>>
         \/ /\ faults < faultBudget
            /\ faults' = faults + 1
            /\ SetUnit(c, u, [unit EXCEPT !.st = "failed", !.failure = "execution",
                                           !.result = None])
            /\ failedRuns' = incrementFailedRuns(failedRuns)
            /\ UNCHANGED store
  /\ UNCHANGED <<requests, filesystem, configVars, schedulerVars, clock, lastRunTime,
                 totalRuns, published>>

\* the loop over result.Tests: a failed CreateTestResult is logged and skipped
StoreResults(c, u) ==
  /\ IsUnit(c, u)
  /\ cycles[c].units[u].st = "stored"
  /\ LET unit == cycles[c].units[u]
     IN  /\ \E failed \in SUBSET (1..Len(unit.result.val.Tests)) :
              /\ faults + Cardinality(failed) <= faultBudget
              /\ faults' = faults + Cardinality(failed)
              /\ store' = StoreTestResults(store, unit.result.val, unit.executionId, 1, failed)
         /\ SetUnit(c, u, [unit EXCEPT !.st = "done", !.result = None])
  /\ UNCHANGED <<requests, filesystem, configVars, schedulerVars, clock, statsVars, published>>

(***************************************************************************)
(* Start, the ticker goroutine, Stop and RunNow                            *)
(***************************************************************************)
\* Start calls s.runOnce()
StartCall ==
  /\ mainPc = "init"
  /\ mainPc' = "startRun"
  /\ CycleBegin("start")
  /\ loopCycle' = Len(cycles) + 1
  /\ UNCHANGED <<requests, filesystem, faults, configVars, ctxDone, loopPc, tickPending, failedRuns,
                 store, published>>

\* runOnce has returned: s.wg.Add(1), the goroutine and its ticker start, and
\* Start returns (main then starts the HTTP server)
StartReturn ==
  /\ mainPc = "startRun"
  /\ Ended(loopCycle)
  /\ mainPc' = "serving"
  /\ loopPc' = "select"
  /\ UNCHANGED <<requests, filesystem, faults, configVars, ctxDone, loopCycle, tickPending, clock,
                 statsVars, cycles, store, published>>

\* the ticker sends a tick (ticker.C holds one tick; further ticks are dropped)
TickerFires ==
  /\ loopPc \in {"select", "running"}
  /\ ~tickPending
  /\ tickPending' = TRUE
  /\ UNCHANGED <<requests, filesystem, faults, configVars, ctxDone, mainPc, loopPc, loopCycle,
                 clock, statsVars, cycles, store, published>>

\* faulty variant: every tick starts its cycle in a goroutine of its own, so
\* a tick is taken while the cycle of the tick before is running
CanTakeTickWhileRunning == loopPc \in {"select", "running"} /\ tickPending

\* the select may take "case <-ticker.C" whenever a tick is waiting
CanTakeTick == loopPc = "select" /\ tickPending

\* case <-ticker.C: s.runOnce()
LoopTick ==
  /\ CanTakeTick
  /\ RoomForCycle
  /\ tickPending' = FALSE
  /\ loopPc' = "running"
  /\ CycleBegin("timer")
  /\ loopCycle' = Len(cycles) + 1
  /\ UNCHANGED <<requests, filesystem, faults, configVars, ctxDone, mainPc, failedRuns, store, published>>

\* s.runOnce() has returned to the for/select loop
LoopCycleDone ==
  /\ loopPc = "running"
  /\ Ended(loopCycle)
  /\ loopPc' = "select"
  /\ UNCHANGED <<requests, filesystem, faults, configVars, ctxDone, mainPc, loopCycle, tickPending,
                 clock, statsVars, cycles, store, published>>

\* case <-s.ctx.Done(): return (the deferred ticker.Stop and s.wg.Done run)
LoopExit ==
  /\ loopPc = "select"
  /\ ctxDone
  /\ loopPc' = "exited"
  /\ UNCHANGED <<requests, filesystem, faults, configVars, ctxDone, mainPc, loopCycle, tickPending,
                 clock, statsVars, cycles, store, published>>

\* Stop: s.cancel(), then s.wg.Wait() blocks
StopCall ==
  /\ mainPc = "serving"
  /\ ctxDone' = TRUE
  /\ mainPc' = "stopping"
  /\ cycles' = [c \in 1..Len(cycles) |->
                  [cycles[c] EXCEPT !.atStop = (cycles[c].phase = "AwaitingCompletions")]]
  /\ UNCHANGED <<requests, filesystem, faults, configVars, loopPc, loopCycle, tickPending, clock,
                 statsVars, store, published>>

\* s.wg.Wait() returns when the goroutines counted in s.wg have ended
WaitGroupEmpty == loopPc = "exited"

\* Stop returns
StopReturn ==
  /\ mainPc = "stopping"
  /\ WaitGroupEmpty
  /\ mainPc' = "stopped"
  /\ UNCHANGED <<requests, filesystem, faults, configVars, ctxDone, loopPc, loopCycle, tickPending,
                 clock, statsVars, cycles, store, published>>

\* RunNow: go s.runOnce(), taken up to the end of the goroutine's first
\* statements; POST /api/run is served from the moment main has
\* started the HTTP server until the process ends
RunNow ==
  /\ mainPc \in {"serving", "stopping", "stopped"}
  /\ RoomForCycle
  /\ CycleBegin("manual")
  /\ UNCHANGED <<requests, filesystem, faults, configVars, schedulerVars, failedRuns, store, published>>

(***************************************************************************)
(* POST /api/run                                                           *)
(***************************************************************************)
MaxRequests == 2

Methods == {"POST", "GET"}

\* faulty variant: the method of the request is not looked at
AcceptedAnyMethod(method) == TRUE

\* "if r.Method != http.MethodPost": the request is answered 405 at once
Accepted(method) == method = "POST"

\* handleRun: a request that is not a POST is answered 405; a POST calls
\* s.scheduler.RunNow(), which starts the goroutine of runOnce (taken up to
\* the end of its first statements) and returns, and the handler answers 200
handleRun(method) ==
  /\ mainPc \in {"serving", "stopping", "stopped"}
  /\ Len(requests) < MaxRequests
  /\ IF Accepted(method)
     THEN /\ RoomForCycle
          /\ CycleBegin("manual")
          /\ requests' = Append(requests, [method |-> method, status |-> 200,
                                           cycle |-> Len(cycles) + 1])
          /\ UNCHANGED <<filesystem, faults, configVars, schedulerVars, failedRuns,
                         store, published>>
     ELSE /\ requests' = Append(requests, [method |-> method, status |-> 405,
                                           cycle |-> 0])
          /\ UNCHANGED <<filesystem, faults, configVars, schedulerVars, clock,
                         statsVars, cycles, store, published>>

(***************************************************************************)
(* GET /api/history                                                        *)
(***************************************************************************)
DecimalDigits == <<"0", "1", "2", "3", "4", "5", "6", "7", "8", "9">>

DigitValue(ch) == (CHOOSE i \in 1..Len(DecimalDigits) : DecimalDigits[i] = ch) - 1

\* the digits of the greatest magnitude an int (64 bits) holds:
\* 9223372036854775807, and 9223372036854775808 below zero
IntLimitDigits(negative) ==
  <<"9", "2", "2", "3", "3", "7", "2", "0", "3", "6", "8", "5", "4", "7", "7",
    "5", "8", "0", IF negative THEN "8" ELSE "7">>

RECURSIVE StripZeros(_)
StripZeros(ds) ==
  IF Len(ds) > 1 /\ Head(ds) = "0" THEN StripZeros(Tail(ds)) ELSE ds

\* a <= b for two digit strings of the same length
RECURSIVE DigitsLeq(_, _)
DigitsLeq(a, b) ==
  IF a = << >> THEN TRUE
  ELSE IF Head(a) = Head(b) THEN DigitsLeq(Tail(a), Tail(b))
  ELSE DigitValue(Head(a)) < DigitValue(Head(b))

\* the magnitude written by the digits is at most the one written by bound
MagnitudeFits(ds, bound) ==
  LET d == StripZeros(ds)
  IN  Len(d) < Len(bound) \/ (Len(d) = Len(bound) /\ DigitsLeq(d, bound))

RECURSIVE DigitsValue(_)
DigitsValue(ds) ==
  IF ds = << >> THEN 0
  ELSE DigitsValue(SubSeq(ds, 1, Len(ds) - 1)) * 10 + DigitValue(ds[Len(ds)])

\* strconv.Atoi: an optional sign and decimal digits; a syntax error for
\* anything else, a range error for a numeral outside int
Atoi(s) ==
  LET signed == s # << >> /\ Head(s) \in {"+", "-"}
      negative == s # << >> /\ Head(s) = "-"
      ds == IF signed THEN Tail(s) ELSE s
  IN  IF ds = << >> \/ \E i \in 1..Len(ds) : \A k \in 1..Len(DecimalDigits) : DecimalDigits[k] # ds[i]
      THEN [ok |-> FALSE, val |-> 0]
      ELSE IF ~MagnitudeFits(ds, IntLimitDigits(negative))
      THEN [ok |-> FALSE, val |-> 0]
      ELSE [ok |-> TRUE, val |-> IF negative THEN 0 - DigitsValue(ds) ELSE DigitsValue(ds)]

\* faulty variant: the limit is not capped
HistoryLimitUncapped(limitStr) ==
  IF limitStr = << >> THEN 50
  ELSE IF Atoi(limitStr).ok THEN Atoi(limitStr).val
  ELSE 50

\* "limit := 50" and the block that replaces it by the limit parameter
HistoryLimit(limitStr) ==
  IF limitStr = << >> THEN 50
  ELSE IF Atoi(limitStr).ok
       THEN IF Atoi(limitStr).val > 200 THEN 200 ELSE Atoi(limitStr).val
  ELSE 50

\* GetExecutionHistory: the executions of the collection ORDER BY started_at
\* DESC LIMIT limit; the sequences the query may return (rows of equal
\* started_at in any order)
GetExecutionHistory(st, collectionID, limit) ==
  LET rows == {e \in st.executions : e.collectionId = collectionID}
      sorted == {o \in Orderings(rows) :
                   \A i, j \in 1..Len(o) : i < j => o[i].startedAt >= o[j].startedAt}
  IN  {SubSeq(o, 1, IF limit < Len(o) THEN limit ELSE Len(o)) : o \in sorted}

\* twenty nines: a decimal numeral greater than every int
Huge ==
  <<"9", "9", "9", "9", "9", "9", "9", "9", "9", "9",
    "9", "9", "9", "9", "9", "9", "9", "9", "9", "9">>

\* handleHistory: the method, collection_id and limit are looked at in that
\* order, then the store is asked (LIMIT with a negative count is an error of
\* the database, as is any failure injected from outside)
handleHistory(method, collectionIDStr, limitStr) ==
  /\ mainPc \in {"serving", "stopping", "stopped"}
  /\ Len(requests) < MaxRequests
  /\ LET \* the answer to a request that ended before the store was asked
         rejected(status) ==
           [path |-> "/api/history", method |-> method,
            collectionID |-> collectionIDStr, limit |-> limitStr,
            status |-> status, query |-> None, body |-> None]
     IN
     IF method # "GET"
     THEN /\ requests' = Append(requests, rejected(405))
          /\ UNCHANGED faults
     ELSE IF collectionIDStr = << >> \/ ~Atoi(collectionIDStr).ok
     THEN /\ requests' = Append(requests, rejected(400))
          /\ UNCHANGED faults
     ELSE LET collectionID == Atoi(collectionIDStr).val
              limit == HistoryLimit(limitStr)
              query == Some([collectionID |-> collectionID, limit |-> limit])
              answer == [rejected(500) EXCEPT !.query = query]
          IN  \/ /\ limit >= 0
                 /\ \E history \in GetExecutionHistory(store, collectionID, limit) :
                      requests' = Append(requests,
                                    [answer EXCEPT !.status = 200, !.body = Some(history)])
                 /\ UNCHANGED faults
              \/ /\ limit < 0
                 /\ requests' = Append(requests, answer)
                 /\ UNCHANGED faults
              \/ /\ limit >= 0
                 /\ faults < faultBudget
                 /\ faults' = faults + 1
                 /\ requests' = Append(requests, answer)
  /\ UNCHANGED <<filesystem, configVars, schedulerVars, clock, statsVars, cycles,
                 store, published>>

(***************************************************************************)
(* GET /api/results as a request                                           *)
(***************************************************************************)
\* the reads one call of GetLatestResults makes of a store when none fails:
\* the collections, the latest executions and, for every latest execution
\* whose collection was read, its last success and its test results
LatestReads(st) ==
  2 + 2 * Cardinality({e.collectionId : e \in st.executions}
                        \cap {c.id : c \in st.collections})

\* faulty variant: a failed read inside the loop is skipped and the results
\* read so far are returned
GetLatestResultsOutcomesPartial(st, perIter, failAt) ==
  IF failAt \in 1..2
  THEN {[err |-> TRUE, results |-> None]}
  ELSE {[err |-> FALSE, results |-> Some(r)] : r \in GetLatestResults(st, perIter)}

\* what one call of GetLatestResults returns when its read number failAt
\* fails (0: none does): every error path is "return nil, err"
GetLatestResultsOutcomes(st, perIter, failAt) ==
  IF failAt \in 1..LatestReads(st)
  THEN {[err |-> TRUE, results |-> None]}
  ELSE {[err |-> FALSE, results |-> Some(r)] : r \in GetLatestResults(st, perIter)}

\* handleResults as a request: the method is looked at, the directory is
\* scanned, the store is read (its read number failAt fails, 0: none) and
\* the body is built; http.Error answers each failure
handleResultsRequest(method, failAt) ==
  /\ mainPc \in {"serving", "stopping", "stopped"}
  /\ Len(requests) < MaxRequests
  /\ LET scan == ScanGroups(filesystem, perIteration)
         \* the answer, the body left out
         ResultsAnswer(m, status, scanOk, f) ==
           [path |-> "/api/results", method |-> m, status |-> status,
            scanOk |-> scanOk, failAt |-> f, body |-> None]
     IN  IF method # "GET"
         THEN /\ failAt = 0
              /\ requests' = Append(requests, ResultsAnswer(method, 405, TRUE, 0))
         ELSE IF ~scan.ok
         THEN /\ failAt = 0
              /\ requests' = Append(requests, ResultsAnswer(method, 500, FALSE, 0))
         ELSE /\ failAt \in 0..LatestReads(store)
              /\ failAt > 0 => faults < faultBudget
              /\ \E out \in GetLatestResultsOutcomes(store, perIteration, failAt) :
                   requests' = Append(requests,
                     IF out.err THEN ResultsAnswer(method, 500, TRUE, failAt)
                     ELSE [ResultsAnswer(method, 200, TRUE, failAt) EXCEPT
                             !.body = Some(handleResults(scan.groups, out.results.val))])
  /\ faults' = IF failAt > 0 THEN faults + 1 ELSE faults
  /\ UNCHANGED <<filesystem, configVars, schedulerVars, clock, statsVars, cycles,
                 store, published>>

CycleStep(c) ==
  \/ Scan(c)
  \/ Dispatch(c)
  \/ Join(c)
  \/ ReadLatest(c)
  \/ UpdateMetrics(c)

UnitStep(c, u) ==
  \/ RunnerReturns(c, u)
  \/ RunnerFails(c, u)
  \/ RunnerHangs(c, u)
  \/ CreateExecution(c, u)
  \/ StoreResults(c, u)

Next ==
  \/ StartCall
  \/ StartReturn
  \/ TickerFires
  \/ LoopTick
  \/ LoopCycleDone
  \/ LoopExit
  \/ StopCall
  \/ StopReturn
  \/ RunNow
  \/ \E c \in 1..MaxCycles : CycleStep(c)
  \/ \E c \in 1..MaxCycles : \E u \in 1..MaxUnits : UnitStep(c, u)

Spec == Init /\ [][Next]_vars

(***************************************************************************)
(* The HTTP server answering /api/run once Start has returned, next to the *)
(* cycles it triggers; no ticker and no Stop                               *)
(***************************************************************************)


ApiNext ==
  \/ StartCall
  \/ StartReturn
  \/ \E method \in Methods : handleRun(method)
  \/ \E c \in 1..MaxCycles : CycleStep(c)
  \/ \E c \in 1..MaxCycles : \E u \in 1..MaxUnits : UnitStep(c, u)

ApiSpec == InitWith({FsNamedEnv, FsNoGroups}, MaxFaults) /\ [][ApiNext]_vars

(***************************************************************************)
(* The HTTP server answering one request to /api/history next to the       *)
(* cycles of Start and of the ticker; no Stop and no manual cycle          *)
(***************************************************************************)

HistoryNext ==
  \/ StartCall
  \/ StartReturn
  \/ TickerFires
  \/ LoopTick
  \/ LoopCycleDone
  \/ \E method \in Methods :
       \* the parameters as written ("" when absent)
       \E collectionIDStr \in {<< >>, <<"x">>, <<"1">>, <<"2">>, Huge} :
         \E limitStr \in {<< >>, <<"x">>, <<"0">>, <<"1">>, <<"2", "0", "0">>,
                          <<"2", "0", "1">>, <<"-", "1">>, Huge} :
           requests = << >> /\ handleHistory(method, collectionIDStr, limitStr)
  \/ \E c \in 1..MaxCycles : CycleStep(c)
  \/ \E c \in 1..MaxCycles : \E u \in 1..MaxUnits : UnitStep(c, u)

HistorySpec == InitWith({FsNamedEnv}, MaxFaults) /\ [][HistoryNext]_vars

(***************************************************************************)
(* The HTTP server answering one request to /api/results next to the       *)
(* cycles of Start and of the ticker; no Stop and no manual cycle          *)
(***************************************************************************)
MaxReads == 6

ResultsNext ==
  \/ StartCall
  \/ StartReturn
  \/ TickerFires
  \/ LoopTick
  \/ LoopCycleDone
  \/ \E method \in Methods : \E failAt \in 0..MaxReads :
       requests = << >> /\ handleResultsRequest(method, failAt)
  \/ \E c \in 1..MaxCycles : CycleStep(c)
  \/ \E c \in 1..MaxCycles : \E u \in 1..MaxUnits : UnitStep(c, u)

ResultsSpec == InitWith({FsNamedEnv, FsTwoCollections, FsMissing}, MaxFaults) /\ [][ResultsNext]_vars

(***************************************************************************)
(* The statistics over the cycle of Start when more than one of its units  *)
(* may fail                                                                *)
(***************************************************************************)


StatsNext ==
  \/ StartCall
  \/ StartReturn
  \/ \E c \in 1..MaxCycles : CycleStep(c)
  \/ \E c \in 1..MaxCycles : \E u \in 1..MaxUnits : UnitStep(c, u)

StatsSpec == InitWith({FsNamedEnv, FsTwoCollections, FsMissing}, MaxFaults + 1) /\ [][StatsNext]_vars

(***************************************************************************)
(* The results view under a changing collections directory: units run to   *)
(* their end one at a time and without faults, files come and go           *)
(***************************************************************************)
MaxViewExecutions == 2
MaxViewClock == 1

\* one whole executeCollection for a collection of the present scan: Execute
\* returns a result, the collection is upserted, the execution and its test
\* results are stored
ExecuteUnit ==
  /\ store.nextExecutionId <= MaxViewExecutions
  /\ LET scan == ScanGroups(filesystem, perIteration)
         units == UnitsOf(scan.groups, 1, clock)
     IN  /\ scan.ok
         /\ \E u \in 1..Len(units) : \E r \in RunnerResults :
              LET k == UnitKey(units[u])
                  up == UpsertCollection(store, r.CollectionName, units[u].args.col.FullPath,
                                         k.key, k.directory, k.environment, k.collection)
                  cr == CreateTestExecution(up.store,
                          ExecutionRecord(r, up.row.id, units[u].startTime,
                                          units[u].startTime))
              IN  store' = StoreTestResults(cr.store, r, cr.row.id, 1, {})
  /\ UNCHANGED <<requests, filesystem, faults, configVars, schedulerVars, clock, statsVars,
                 cycles, published>>

\* time.Now() moves on
TimePasses ==
  /\ clock < MaxViewClock
  /\ clock' = clock + 1
  /\ UNCHANGED <<requests, filesystem, faults, configVars, schedulerVars, statsVars, cycles,
                 store, published>>

\* files are added to or removed from the collections directory
DirectoryChanges ==
  /\ \E fs \in (FileSystems \cup {FsSameName}) \ {filesystem} : filesystem' = fs
  /\ UNCHANGED <<requests, faults, configVars, schedulerVars, clock, statsVars, cycles,
                 store, published>>

ViewNext == ExecuteUnit \/ TimePasses \/ DirectoryChanges

ViewSpec == Init /\ [][ViewNext]_vars

(***************************************************************************)
(* One call of GetLatestResults next to units that write to the store: the *)
(* call reads the collections and the latest executions, and reads the     *)
(* last success and the test results of each execution later               *)
(***************************************************************************)
\* GetLatestResults up to the end of GetLatestExecutions
GetLatestResultsBegin ==
  /\ requests = << >>
  /\ \E executions \in GetLatestExecutions(store) :
       requests' = Append(requests,
                     [path |-> "GetLatestResults", collections |-> store.collections,
                      executions |-> executions, results |-> None])
  /\ UNCHANGED <<filesystem, faults, configVars, schedulerVars, clock, statsVars,
                 cycles, store, published>>

\* the loop of GetLatestResults over the executions it has read (its reads
\* of the store taken together) and the grouping
GetLatestResultsEnd ==
  /\ Len(requests) = 1
  /\ ~requests[1].results.some
  /\ \E crs \in CollectionResultsFrom(store, requests[1].collections,
                                      requests[1].executions, 1, perIteration) :
       \E keys \in Orderings(GroupKeys(crs)) :
         requests' = [requests EXCEPT ![1].results =
                        Some([EnvironmentGroups |->
                                [k \in 1..Len(keys) |-> EnvironmentGroupOf(crs, keys[k])]])]
  /\ UNCHANGED <<filesystem, faults, configVars, schedulerVars, clock, statsVars,
                 cycles, store, published>>

ReaderNext ==
  ExecuteUnit \/ TimePasses \/ GetLatestResultsBegin \/ GetLatestResultsEnd

ReaderSpec == InitWith({FsNamedEnv, FsTwoCollections}, MaxFaults) /\ [][ReaderNext]_vars

(***************************************************************************)
(* The scanner alone: the first cycle scans a collections directory whose  *)
(* one subdirectory holds any of a few files                               *)
(***************************************************************************)
EnvironmentM == <<"m">> \o EnvironmentSuffix

\* the files a subdirectory may hold, in the order os.ReadDir lists them: two
\* collections, two environment files and an environment file that is not JSON
ScanCandidates ==
  <<File(CollectionA, Json(<< >>)),
    File(CollectionB, Json(<< >>)),
    File(EnvironmentD, Json(<< >>)),
    File(EnvironmentE, Json(<<"Q">>)),
    File(EnvironmentM, [kind |-> "malformed"])>>

ScanFileSystems ==
  {[exists |-> TRUE, readable |-> TRUE,
    entries |-> <<Dir(<<"d">>, SelectSeq(ScanCandidates, LAMBDA f : f.name \in names))>>]
   : names \in SUBSET {ScanCandidates[i].name : i \in 1..Len(ScanCandidates)}}


ScanNext == StartCall \/ \E c \in 1..MaxCycles : Scan(c)

ScanSpec == InitWith(ScanFileSystems, MaxFaults) /\ [][ScanNext]_vars

(***************************************************************************)
(* One cycle, from Start to the stored results of its units, over          *)
(* directories whose names differ in letter case, in white space, in       *)
(* readability and in the kinds of files they hold                         *)
(***************************************************************************)
\* billing/ holds checkout.postman_collection.json and
\* default.postman_environment.json, whose JSON has no "name"
FsBilling ==
  [exists |-> TRUE, readable |-> TRUE,
   entries |-> <<Dir(<<"b", "i", "l", "l", "i", "n", "g">>,
                     <<File(<<"c", "h", "e", "c", "k", "o", "u", "t">> \o CollectionSuffix,
                            Json(<< >>)),
                       File(<<"d", "e", "f", "a", "u", "l", "t">> \o EnvironmentSuffix,
                            Json(<< >>))>>)>>]

\* D/ and d/ hold the same files up to the letter case of their first letter
FsLetterCase ==
  [exists |-> TRUE, readable |-> TRUE,
   entries |-> <<Dir(<<"D">>, <<File(<<"A">> \o CollectionSuffix, Json(<< >>)),
                                File(<<"E">> \o EnvironmentSuffix, Json(<< >>))>>),
                 Dir(<<"d">>, <<File(<<"a">> \o CollectionSuffix, Json(<< >>)),
                                File(<<"e">> \o EnvironmentSuffix, Json(<< >>))>>)>>]

\* D/A.POSTMAN_COLLECTION.JSON and d/a.postman_collection.json
FsSuffixCase ==
  [exists |-> TRUE, readable |-> TRUE,
   entries |-> <<Dir(<<"D">>, <<File(<<"A", ".", "P", "O", "S", "T", "M", "A", "N", "_",
                                       "C", "O", "L", "L", "E", "C", "T", "I", "O", "N",
                                       ".", "J", "S", "O", "N">>, Json(<< >>))>>),
                 Dir(<<"d">>, <<File(<<"a">> \o CollectionSuffix, Json(<< >>))>>)>>]

\* a collection next to env.postman_environment.json
FsEnvironmentNamedEnv ==
  [exists |-> TRUE, readable |-> TRUE,
   entries |-> <<Dir(<<"d">>, <<File(CollectionA, Json(<< >>)),
                                File(EnvPlaceholder \o EnvironmentSuffix, Json(<< >>))>>)>>]

\* a loose file, a directory with a tab and one with a space in its name,
\* and a directory z
FsWhitespace ==
  [exists |-> TRUE, readable |-> TRUE,
   entries |-> <<File(CollectionA, Json(<< >>)),
                 Dir(<<"x", "\t", "y">>, <<File(CollectionA, Json(<< >>))>>),
                 Dir(<<"x", " ", "y">>, <<File(CollectionA, Json(<< >>))>>),
                 Dir(<<"z">>, <<File(CollectionA, Json(<< >>))>>)>>]

\* a directory with an upper-case environment file, a collection, a nested
\* directory, a text file and a file with the environment suffix inside
\* its name
FsFileKinds ==
  [exists |-> TRUE, readable |-> TRUE,
   entries |-> <<Dir(<<"d">>,
                     <<File(<<"E", ".", "P", "O", "S", "T", "M", "A", "N", "_", "E", "N",
                              "V", "I", "R", "O", "N", "M", "E", "N", "T", ".", "J", "S",
                              "O", "N">>, Json(<<"Q">>)),
                       File(CollectionA, Json(<< >>)),
                       [name |-> <<"n", ".", "j", "s", "o", "n">>, isDir |-> TRUE,
                        content |-> Json(<< >>)],
                       File(<<"r", ".", "t", "x", "t">>, Json(<< >>)),
                       File(<<"s">> \o EnvironmentSuffix \o JsonSuffix, Json(<< >>))>>)>>]

\* an unreadable subdirectory, and a directory with a collection, a good
\* environment file, a malformed one and one that cannot be read
FsBadItems ==
  [exists |-> TRUE, readable |-> TRUE,
   entries |-> <<Dir(<<"d">>, <<File(CollectionA, Json(<< >>)),
                                File(EnvironmentD, Json(<< >>)),
                                File(EnvironmentM, [kind |-> "malformed"]),
                                File(EnvironmentP, [kind |-> "unreadable"])>>),
                 [Dir(<<"u">>, <<File(CollectionA, Json(<< >>))>>) EXCEPT !.readable = FALSE],
                 Dir(<<"z">>, <<File(CollectionA, Json(<< >>)),
                                File(EnvironmentM, [kind |-> "malformed"])>>)>>]

\* the root exists and os.ReadDir fails on it
FsRootUnreadable == [exists |-> TRUE, readable |-> FALSE, entries |-> << >>]

\* a collection whose result has two assertions
FsJoined ==
  [exists |-> TRUE, readable |-> TRUE,
   entries |-> <<Dir(<<"d">>, <<File(CollectionJ, Json(<< >>))>>)>>]

\* a directory "a" with an environment "b" and a collection "env_c", next to a
\* directory "a_b" with a collection "c" and no environment
FsUnderscore ==
  [exists |-> TRUE, readable |-> TRUE,
   entries |-> <<Dir(<<"a">>, <<File(<<"b">> \o EnvironmentSuffix, Json(<<"b">>)),
                                File(<<"e", "n", "v", "_", "c">> \o CollectionSuffix,
                                     Json(<< >>))>>),
                 Dir(<<"a", "_", "b">>, <<File(<<"c">> \o CollectionSuffix, Json(<< >>))>>)>>]

CycleFileSystems ==
  {FsBilling, FsLetterCase, FsSuffixCase, FsEnvironmentNamedEnv, FsWhitespace,
   FsFileKinds, FsBadItems, FsRootUnreadable, FsJoined, FsMissing, FsNamedEnv,
   FsTwoCollections, FsUnderscore}


CycleNext ==
  \/ StartCall
  \/ \E c \in 1..MaxCycles : Scan(c) \/ Dispatch(c)
  \/ \E c \in 1..MaxCycles : \E u \in 1..MaxUnits :
       RunnerReturns(c, u) \/ CreateExecution(c, u) \/ StoreResults(c, u)

CycleSpec == InitWith(CycleFileSystems, MaxFaults) /\ [][CycleNext]_vars

\* the subdirectories ScanGroups hands to scanSubdirectory and can read
ScannedDirectories ==
  {filesystem.entries[i] : i \in {j \in 1..Len(filesystem.entries) :
                                    /\ filesystem.entries[j].isDir
                                    /\ ~Contains(filesystem.entries[j].name, <<" ">>)
                                    /\ filesystem.entries[j].readable}}

\* the groups of a scan that come from one subdirectory
GroupsOfDirectory(groups, name) == SelectSeq(groups, LAMBDA g : g.Directory = name)

\* the cycles whose scan has returned without error
ScannedCycles == {c \in 1..Len(cycles) : cycles[c].scanOk}

\* the bodies GET /api/results may answer with in the present state
\* (none when the scan fails: the handler answers 500)
Responses ==
  LET scan == ScanGroups(filesystem, perIteration)
  IN  IF scan.ok
      THEN {handleResults(scan.groups, lr) : lr \in GetLatestResults(store, perIteration)}
      ELSE {}

\* the composite keys handleResults computes for the present scan
ScanKeys ==
  LET groups == ScanGroups(filesystem, perIteration).groups
  IN  UNION {{ResultsKey(groups[g], groups[g].Collections[c]).key :
                c \in 1..Len(groups[g].Collections)} : g \in 1..Len(groups)}

\* the composite keys of the collections that have a stored execution
PersistedKeys ==
  {col.compositeKey :
     col \in {x \in store.collections : \E e \in store.executions : e.collectionId = x.id}}

(***************************************************************************)
(* Properties                                                              *)
(***************************************************************************)
CycleIds == 1..Len(cycles)
UnitIds(c) == 1..Len(cycles[c].units)
FullChain ==
  <<"Idle", "Scanning", "Dispatching", "AwaitingCompletions", "Aggregating", "Idle">>
Over(unit) == unit.st \in {"done", "failed"}

\* C1: for every pair of a scan whose unit has upserted the collection and
\* stored its execution, the composite key the unit used equals the key the
\* results endpoint computes for the same pair, and the endpoint does not
\* answer with a placeholder (no execution) for that pair.
C1_IdentityNeverDrifts ==
  \A c \in CycleIds : \A u \in UnitIds(c) :
    LET unit == cycles[c].units[u]
        group == cycles[c].groups[unit.g]
        col == group.Collections[unit.c]
    IN  unit.st \in {"stored", "done"} =>
          /\ UnitKey(unit).key = ResultsKey(group, col).key
          /\ \A lr \in GetLatestResults(store, perIteration) :
               ResultFor(lr, group, col).Execution.some

\* C2: every beginning of a cycle is counted once, whatever the interleaving
\* (total_runs equals the number of cycles begun), and no cycle waits for or
\* is stopped by another: a cycle that has scanned can start its units at
\* once, and a cycle whose own units are all over can pass its join at once,
\* whatever the other cycles are doing.
C2_ConcurrentCyclesAllCount ==
  /\ totalRuns = Len(cycles)
  /\ \A c \in CycleIds :
       /\ cycles[c].phase = "Dispatching" => ENABLED Dispatch(c)
       /\ (cycles[c].phase = "AwaitingCompletions"
           /\ \A u \in UnitIds(c) : Over(cycles[c].units[u])) => ENABLED Join(c)

\* a manual cycle begun while a timer cycle was in flight (the timer cycle
\* started its units after the manual cycle began), both run to their end,
\* the counter at three with the cycle of Start
C2_Witness ==
  \E t \in CycleIds : \E m \in CycleIds :
    /\ t < m
    /\ cycles[t].trigger = "timer" /\ cycles[m].trigger = "manual"
    /\ Ended(t) /\ Ended(m)
    /\ Len(cycles[t].units) > 0 /\ Len(cycles[m].units) > 0
    /\ cycles[t].units[1].startTime >= cycles[m].beginTime
    /\ totalRuns = 3

\* C3: in every cycle, GetLatestResults has been called (or is about to be:
\* the cycle is in Aggregating) only if every unit the cycle started is over.
C3_RefreshAfterJoin ==
  \A c \in CycleIds :
    (cycles[c].phase = "Aggregating" \/ cycles[c].reads > 0 \/ cycles[c].updates > 0)
      => \A u \in UnitIds(c) : Over(cycles[c].units[u])

\* a cycle of two units that has read the latest results
C3_Witness ==
  \E c \in CycleIds :
    /\ Len(cycles[c].units) = 2
    /\ cycles[c].phase = "Aggregating"
    /\ cycles[c].snapshot.some

\* C4: once a cycle whose scan succeeded has started its units, there is
\* exactly one unit for every collection of every group of the scan, each has
\* invoked the Runner exactly once (no retry), a unit whose Runner call has
\* returned a result can take its next step whatever became of its siblings,
\* and when all units are over (failed or not) the cycle can pass its join
\* towards the refresh.
C4_OneInvocationPerPair ==
  \A c \in CycleIds :
    (cycles[c].scanOk /\ cycles[c].phase \notin {"Scanning", "Dispatching"}) =>
      /\ Len(cycles[c].units) = CountUnits(cycles[c].groups)
      /\ \A g \in 1..Len(cycles[c].groups) :
           \A k \in 1..Len(cycles[c].groups[g].Collections) :
             Cardinality({u \in UnitIds(c) :
                            cycles[c].units[u].g = g /\ cycles[c].units[u].c = k}) = 1
      /\ \A u \in UnitIds(c) :
           /\ cycles[c].units[u].invocations = 1
           /\ cycles[c].units[u].st = "upserted" => ENABLED CreateExecution(c, u)
           /\ cycles[c].units[u].st = "stored" => ENABLED StoreResults(c, u)
      /\ (cycles[c].phase = "AwaitingCompletions"
          /\ \A u \in UnitIds(c) : Over(cycles[c].units[u])) => ENABLED Join(c)

\* a cycle that has read the latest results although the Runner's output of
\* one of its two units could not be used, the other unit being done
C4_Witness ==
  \E c \in CycleIds :
    /\ cycles[c].reads = 1
    /\ \E u \in UnitIds(c) : \E v \in UnitIds(c) :
         /\ cycles[c].units[u].st = "failed" /\ cycles[c].units[u].failure = "runner"
         /\ cycles[c].units[v].st = "done"

\* C5: a hung Runner call blocks only its own unit: whenever a unit hangs,
\* neither Start nor the ticker goroutine is inside the runOnce of that
\* unit's cycle (where it would wait in wg.Wait() for ever, a hung unit never
\* calling wg.Done(), and no further timer cycle could begin).
C5_HangBlocksOnlyItsUnit ==
  \A c \in CycleIds : \A u \in UnitIds(c) :
    cycles[c].units[u].st = "hung" =>
      ~(loopCycle = c /\ (loopPc = "running" \/ mainPc = "startRun"))

\* C6: when Stop has returned, every cycle that was in flight when Stop was
\* called, its units dispatched, has passed its join of those units.
C6_StopWaitsForCyclesInFlight ==
  mainPc = "stopped" => \A c \in CycleIds : ~cycles[c].atStop

\* C7: once Stop has cancelled the context, no timer cycle begins.
C7_NoTimerCycleAfterCancel ==
  [][ctxDone =>
       ~(Len(cycles') = Len(cycles) + 1 /\ cycles'[Len(cycles')].trigger = "timer")]_vars

\* C8: a cycle whose scan failed has ended straight after the scan with no
\* unit, no read of the latest results and no metrics update; it was counted
\* in total_runs and last_run_time before; the failure counter counts it
\* once (failedRuns is the number of failed scans plus the number of failed
\* units); and while every scan fails nothing is stored or published.
C8_ScanFailureAbortsCycle ==
  /\ \A c \in CycleIds :
       (Ended(c) /\ ~cycles[c].scanOk) =>
         /\ cycles[c].hist = <<"Idle", "Scanning", "Idle">>
         /\ cycles[c].units = << >>
         /\ cycles[c].reads = 0 /\ cycles[c].updates = 0
         /\ totalRuns >= c
         /\ cycles[c].beginTime > 0 /\ lastRunTime >= cycles[c].beginTime
  /\ failedRuns =
       Cardinality({c \in CycleIds : Ended(c) /\ ~cycles[c].scanOk})
       + Cardinality({cu \in CycleIds \X (1..MaxUnits) :
                        /\ cu[2] \in UnitIds(cu[1])
                        /\ cycles[cu[1]].units[cu[2]].st = "failed"})
  /\ filesystem = FsMissing => (store = EmptyStore /\ published = None)

\* two cycles whose scans failed, both ended and both counted
C8_Witness ==
  /\ Len(cycles) >= 2
  /\ Ended(1) /\ ~cycles[1].scanOk
  /\ Ended(2) /\ ~cycles[2].scanOk
  /\ failedRuns = 2 /\ totalRuns = 2 /\ lastRunTime = cycles[2].beginTime

\* C9 (as claimed): every ended cycle whose scan did not fail went through
\* Idle, Scanning, Dispatching, AwaitingCompletions, Aggregating, Idle and
\* made exactly one refresh (one GetLatestResults, one UpdateMetrics).
C9_EveryCycleRefreshesOnce ==
  \A c \in CycleIds :
    (Ended(c) /\ cycles[c].scanOk) =>
      /\ cycles[c].hist = FullChain
      /\ cycles[c].reads = 1 /\ cycles[c].updates = 1

\* C9 (amended): a cycle whose scan finds at least one group goes through
\* the phases in that order, and when it has ended it has called
\* GetLatestResults exactly once and UpdateMetrics exactly once, or not at
\* all if GetLatestResults failed; a cycle whose scan finds no group ends
\* straight after the scan without any refresh.
C9_CyclesWithGroupsRefreshOnce ==
  \A c \in CycleIds :
    cycles[c].scanOk =>
      IF cycles[c].groups = << >>
      THEN /\ cycles[c].hist = <<"Idle", "Scanning", "Idle">>
           /\ cycles[c].reads = 0 /\ cycles[c].updates = 0
      ELSE /\ cycles[c].hist = SubSeq(FullChain, 1, Len(cycles[c].hist))
           /\ cycles[c].reads <= 1 /\ cycles[c].updates <= cycles[c].reads
           /\ Ended(c) =>
                /\ cycles[c].hist = FullChain
                /\ cycles[c].reads = 1
                /\ cycles[c].updates = IF cycles[c].readError THEN 0 ELSE 1

\* an ended cycle with units that made its one refresh
C9_Witness ==
  \E c \in CycleIds :
    /\ Ended(c) /\ cycles[c].scanOk /\ Len(cycles[c].units) > 0
    /\ cycles[c].hist = FullChain
    /\ cycles[c].reads = 1 /\ cycles[c].updates = 1

\* C10: every body GET /api/results may answer with holds exactly one
\* CollectionResult for every composite key that the present scan shows or
\* that has a stored execution, and no two for one key.
C10_OneResultPerKey ==
  \A response \in Responses :
    LET all == FlattenGroups(response.EnvironmentGroups)
    IN  /\ \A i \in 1..Len(all) : \A j \in 1..Len(all) :
             i # j => all[i].Collection.compositeKey # all[j].Collection.compositeKey
        /\ {all[i].Collection.compositeKey : i \in 1..Len(all)}
             = ScanKeys \cup PersistedKeys

\* C11: in every body GET /api/results may answer with, every key of the
\* present scan has exactly one CollectionResult; it carries an execution if
\* an execution is stored for the key, and otherwise no execution, no last
\* success and no test result.
C11_OneResultPerScannedKey ==
  \A response \in Responses :
    LET all == FlattenGroups(response.EnvironmentGroups)
    IN  \A K \in ScanKeys :
          LET hits == {i \in 1..Len(all) : all[i].Collection.compositeKey = K}
          IN  /\ Cardinality(hits) = 1
              /\ \A i \in hits :
                   IF K \in PersistedKeys
                   THEN all[i].Execution.some
                   ELSE /\ ~all[i].Execution.some
                        /\ ~all[i].LastSuccessExecution.some
                        /\ all[i].Results = {}

\* C12: in everything GetLatestResults may return, the execution shown for a
\* collection is one of that collection's own, no other execution of the
\* collection started later, none that started at the same time has a
\* greater id, and the results shown are exactly the stored test results of
\* the execution shown; and every collection with a stored execution is shown.
C12_LatestIsGreatestStartThenId ==
  \A lr \in GetLatestResults(store, perIteration) :
    LET all == FlattenGroups(lr.EnvironmentGroups)
    IN  /\ \A i \in 1..Len(all) :
             LET own == {e \in store.executions : e.collectionId = all[i].Collection.id}
                 shown == all[i].Execution.val
             IN  /\ all[i].Execution.some
                 /\ shown \in own
                 /\ \A f \in own :
                      \/ f.startedAt < shown.startedAt
                      \/ f.startedAt = shown.startedAt /\ f.id <= shown.id
                 /\ all[i].Results = {r \in store.testResults : r.executionId = shown.id}
        /\ {all[i].Collection.compositeKey : i \in 1..Len(all)} = PersistedKeys

\* C13: in everything GetLatestResults may return, the last success shown for
\* a collection is one of its executions with total_tests > 0 and
\* failed_tests = 0 than which no other such execution started later, and it
\* is absent when the collection has no such execution (an execution with
\* total_tests = 0 is never shown as last success).
C13_LastSuccessIsLatestPassingRun ==
  \A lr \in GetLatestResults(store, perIteration) :
    LET all == FlattenGroups(lr.EnvironmentGroups)
    IN  \A i \in 1..Len(all) :
          LET passing == {e \in store.executions :
                            /\ e.collectionId = all[i].Collection.id
                            /\ e.totalTests > 0
                            /\ e.failedTests = 0}
              ls == all[i].LastSuccessExecution
          IN  IF passing = {} THEN ~ls.some
              ELSE /\ ls.some
                   /\ ls.val \in passing
                   /\ \A f \in passing : f.startedAt <= ls.val.startedAt

\* a collection whose most recent execution has no test and no failure, shown
\* with the older execution that passed as its last success
C13_Witness ==
  \E lr \in GetLatestResults(store, perIteration) :
    LET all == FlattenGroups(lr.EnvironmentGroups)
    IN  \E i \in 1..Len(all) :
          /\ all[i].LastSuccessExecution.some
          /\ all[i].LastSuccessExecution.val.totalTests > 0
          /\ \E e \in store.executions :
               /\ e.collectionId = all[i].Collection.id
               /\ e.totalTests = 0 /\ e.failedTests = 0
               /\ e.startedAt > all[i].LastSuccessExecution.val.startedAt

\* C14: for a fixed store, every call of GetLatestResults returns the same
\* LatestResults: the same execution for every collection and the same
\* EnvironmentGroups in the same order.
C14_LatestResultsDeterministic ==
  \A first, second \in GetLatestResults(store, perIteration) : first = second

\* the units that have passed their call of UpsertCollection
UpsertedUnits ==
  {cycles[c].units[u] : <<c, u>> \in {p \in CycleIds \X (1..MaxUnits) :
                                        /\ p[2] \in UnitIds(p[1])
                                        /\ cycles[p[1]].units[p[2]].collectionId # 0}}

\* the Collection row a unit's composite key names
RowsOfUnit(unit) == {r \in store.collections : r.compositeKey = UnitKey(unit).key}

\* C15: in every state, whatever the interleaving of the units, the store
\* holds exactly one Collection row for every composite key a unit has
\* upserted and none for any other key, that row still has the id every one
\* of those units was given, and every TestExecution belongs to a unit and
\* references the row of that unit's key.  In every step each Collection row
\* stays in the store with all its fields unchanged except its name.
C15_OneCollectionRowPerKey ==
  /\ [](/\ \A r, q \in store.collections : r.compositeKey = q.compositeKey => r = q
        /\ {r.compositeKey : r \in store.collections}
             = {UnitKey(unit).key : unit \in UpsertedUnits}
        /\ \A unit \in UpsertedUnits :
             \E r \in RowsOfUnit(unit) : r.id = unit.collectionId
        /\ \A e \in store.executions :
             \E unit \in UpsertedUnits :
               /\ unit.executionId = e.id
               /\ \E r \in RowsOfUnit(unit) : r.id = e.collectionId)
  /\ [][\A r \in store.collections :
          \E q \in store'.collections : q = [r EXCEPT !.name = q.name]]_vars

\* two units of different cycles with the same composite key are both between
\* their upsert and their CreateTestExecution, and there is one Collection row
C15_Witness ==
  \E c, d \in CycleIds :
    /\ c # d
    /\ \E u \in UnitIds(c), v \in UnitIds(d) :
         /\ cycles[c].units[u].st = "upserted"
         /\ cycles[d].units[v].st = "upserted"
         /\ UnitKey(cycles[c].units[u]) = UnitKey(cycles[d].units[v])
         /\ cycles[c].units[u].collectionId = cycles[d].units[v].collectionId
         /\ Cardinality(store.collections) = 1

\* the results the Runner may report for the collection file of a unit
OutputsOf(unit) == RunnerOutputs(Base(unit.args.col.FullPath))

\* the TestResult rows written for an execution
ResultsOfExecution(executionId) ==
  {r \in store.testResults : r.executionId = executionId}

\* C16: a unit whose Runner reports a result with a top-level error is not
\* ended by that error: once the result is returned the Collection row of the
\* unit exists and CreateTestExecution is the unit's next step; once that
\* step is taken the store holds exactly one TestExecution of the unit, with
\* the result's error in its error field, and the writing of the TestResults
\* is the unit's next step; when the unit is done and no store write has
\* failed there is one TestResult for every assertion of the result.
C16_ErrorResultIsPersisted ==
  \A c \in CycleIds :
    \A u \in UnitIds(c) :
      LET unit == cycles[c].units[u]
          own == {e \in store.executions : e.id = unit.executionId}
      IN  (\A r \in OutputsOf(unit) : r.Error.some) =>
            /\ faults = 0 => unit.st # "failed"
            /\ unit.st = "upserted" =>
                 /\ unit.result.val.Error.some
                 /\ \E row \in RowsOfUnit(unit) : row.id = unit.collectionId
                 /\ ENABLED CreateExecution(c, u)
            /\ unit.st \in {"stored", "done"} =>
                 /\ Cardinality(own) = 1
                 /\ \A e \in own : /\ e.collectionId = unit.collectionId
                                   /\ \E r \in OutputsOf(unit) : e.error = r.Error
                 /\ \A d \in CycleIds : \A v \in UnitIds(d) :
                      cycles[d].units[v].executionId = unit.executionId
                        => <<d, v>> = <<c, u>>
            /\ unit.st = "stored" => ENABLED StoreResults(c, u)
            /\ unit.st = "done" /\ faults = 0 =>
                 \E r \in OutputsOf(unit) :
                   /\ Cardinality(ResultsOfExecution(unit.executionId)) = Len(r.Tests)
                   /\ \A i \in 1..Len(r.Tests) :
                        \E t \in ResultsOfExecution(unit.executionId) :
                          /\ t.testName = r.Tests[i].Name
                          /\ t.passed = r.Tests[i].Passed
                          /\ t.error = r.Tests[i].Error

\* a unit whose Runner reported a top-level error is done; its execution, with
\* the error, and the TestResult of its assertion are in the store
C16_Witness ==
  \E c \in CycleIds :
    \E u \in UnitIds(c) :
      /\ \A r \in OutputsOf(cycles[c].units[u]) : r.Error.some /\ Len(r.Tests) > 0
      /\ cycles[c].units[u].st = "done"
      /\ faults = 0
      /\ \E e \in store.executions :
           /\ e.id = cycles[c].units[u].executionId
           /\ e.error.some
           /\ ResultsOfExecution(e.id) # {}

\* the units whose call of Execute returned no result
RunnerFailed(unit) == unit.failure = "runner"

\* C17: in the step in which Execute returns an error without a result the
\* store is left as it was and the failure counter grows by exactly one.  A
\* unit ended that way was invoked once and has no Collection row id and no
\* execution id, every row of the store belongs to another unit, the other
\* units of its cycle keep their next step, the cycle joins once all its
\* units are over, and a cycle that has ended has refreshed the aggregator.
C17_ParseFailurePersistsNothing ==
  /\ [][\A c \in CycleIds : \A u \in UnitIds(c) :
          (~RunnerFailed(cycles[c].units[u]) /\ RunnerFailed(cycles'[c].units[u]))
            => /\ store' = store
               /\ failedRuns' = failedRuns + 1]_vars
  /\ [](\A c \in CycleIds : \A u \in UnitIds(c) :
          RunnerFailed(cycles[c].units[u]) =>
            /\ cycles[c].units[u].st = "failed"
            /\ cycles[c].units[u].invocations = 1
            /\ cycles[c].units[u].collectionId = 0
            /\ cycles[c].units[u].executionId = 0
            /\ \A row \in store.collections :
                 \E unit \in UpsertedUnits :
                   ~RunnerFailed(unit) /\ row.id = unit.collectionId
            /\ \A e \in store.executions :
                 \E unit \in UpsertedUnits :
                   ~RunnerFailed(unit) /\ e.id = unit.executionId
            /\ \A t \in store.testResults :
                 \E e \in store.executions : e.id = t.executionId
            /\ \A v \in UnitIds(c) :
                 /\ cycles[c].units[v].st = "upserted" => ENABLED CreateExecution(c, v)
                 /\ cycles[c].units[v].st = "stored" => ENABLED StoreResults(c, v)
            /\ (/\ cycles[c].phase = "AwaitingCompletions"
                /\ \A v \in UnitIds(c) : Over(cycles[c].units[v])) => ENABLED Join(c)
            /\ Ended(c) => cycles[c].reads = 1)

\* a cycle has ended and refreshed the aggregator; one of its units got no
\* result from the Runner, another is done and its execution is in the store
C17_Witness ==
  \E c \in CycleIds :
    /\ Ended(c)
    /\ cycles[c].reads = 1
    /\ failedRuns = 1
    /\ \E u, v \in UnitIds(c) :
         /\ RunnerFailed(cycles[c].units[u])
         /\ cycles[c].units[v].st = "done"
         /\ \E e \in store.executions : e.id = cycles[c].units[v].executionId

\* C18: a scanned directory with N >= 1 environment files and a non-empty
\* list of collection files yields exactly N groups, each with the whole list
\* of collections, and the environments of the groups are the N environment
\* files, each in one group.
C18_OneGroupPerEnvironment ==
  \A c \in ScannedCycles :
    \A e \in ScannedDirectories :
      LET envs == EnvironmentFilesOf(e.name, e.files)
          cols == CollectionFilesOf(e.name, e.files)
          gs == GroupsOfDirectory(cycles[c].groups, e.name)
      IN  (Len(envs) >= 1 /\ cols # << >>) =>
            /\ Len(gs) = Len(envs)
            /\ \A i \in 1..Len(gs) : gs[i].Collections = cols /\ gs[i].Environment.some
            /\ {gs[i].Environment : i \in 1..Len(gs)}
                 = {Some(envs[i]) : i \in 1..Len(envs)}
            /\ \A i, j \in 1..Len(gs) : i # j => gs[i].Environment # gs[j].Environment

\* C19: a scanned directory without collection file yields no group, with or
\* without environment files.
C19_NoCollectionNoGroup ==
  \A c \in ScannedCycles :
    \A e \in ScannedDirectories :
      CollectionFilesOf(e.name, e.files) = << >>
        => GroupsOfDirectory(cycles[c].groups, e.name) = << >>

\* C20: a scanned directory with at least one collection file and no
\* environment file yields exactly one group, without environment, holding
\* all the collection files of the directory.
C20_UngroupedDirectoryOneGroup ==
  \A c \in ScannedCycles :
    \A e \in ScannedDirectories :
      LET cols == CollectionFilesOf(e.name, e.files)
          gs == GroupsOfDirectory(cycles[c].groups, e.name)
      IN  (cols # << >> /\ EnvironmentFilesOf(e.name, e.files) = << >>) =>
            /\ Len(gs) = 1
            /\ ~gs[1].Environment.some
            /\ gs[1].Collections = cols

\* a scan has returned the one group of a directory that holds two
\* collections and no environment file
C20_Witness ==
  \E c \in ScannedCycles :
    \E e \in ScannedDirectories :
      /\ Len(CollectionFilesOf(e.name, e.files)) = 2
      /\ \A i \in 1..Len(e.files) : ~Contains(e.files[i].name, EnvironmentSuffix)
      /\ Len(GroupsOfDirectory(cycles[c].groups, e.name)) = 1
      /\ cycles[c].phase = "Dispatching"

\* the units of all cycles
AllUnits == UNION {{cycles[c].units[u] : u \in UnitIds(c)} : c \in CycleIds}

\* the arguments executeCollection passes to GenerateCompositeKey
KeyInputs(unit) ==
  [directory |-> unit.args.directoryName,
   environment |-> unit.args.environmentName,
   file |-> Base(unit.args.col.FullPath)]

\* C21: two units whose directory, environment and collection file name
\* differ only in letter case, the case of the file-name suffix included, get
\* the same composite key and normalized components, and once both have
\* upserted they have the same Collection row.
C21_KeyIgnoresLetterCase ==
  \A a, b \in AllUnits :
    LET x == KeyInputs(a)
        y == KeyInputs(b)
    IN  \* the two input triples differ at most in letter case
        (/\ ToLower(x.directory) = ToLower(y.directory)
         /\ x.environment.some = y.environment.some
         /\ x.environment.some => ToLower(x.environment.val) = ToLower(y.environment.val)
         /\ ToLower(x.file) = ToLower(y.file)) =>
      /\ UnitKey(a) = UnitKey(b)
      /\ (a.collectionId # 0 /\ b.collectionId # 0) => a.collectionId = b.collectionId

\* the Collection row with the id a unit got from UpsertCollection
RowOfUnit(unit) == {r \in store.collections : r.id = unit.collectionId}

\* C22: the key a unit computes is the lowercased directory, the lowercased
\* environment name or "env" when the unit has no environment name or an
\* empty one, and the lowercased file name without the collection-file
\* suffix, joined by underscores; the key holds no upper-case letter and is
\* the underscore-join of the three components returned with it, and the
\* Collection row the unit has upserted carries that key.
C22_KeyIsUnderscoreJoin ==
  \A unit \in AllUnits :
    unit.collectionId # 0 =>
      /\ RowOfUnit(unit) # {}
      /\ \A row \in RowOfUnit(unit) : row.compositeKey = UnitKey(unit).key
      /\ LET in == KeyInputs(unit)
             r == UnitKey(unit)
         IN  /\ r.directory = ToLower(in.directory)
             /\ r.environment =
                  (IF ~in.environment.some \/ in.environment.val = << >>
                   THEN <<"e", "n", "v">>
                   ELSE ToLower(in.environment.val))
             /\ r.collection =
                  ToLower(IF HasSuffix(in.file, CollectionSuffix)
                          THEN SubSeq(in.file, 1, Len(in.file) - Len(CollectionSuffix))
                          ELSE in.file)
             /\ r.key = r.directory \o <<"_">> \o r.environment
                          \o <<"_">> \o r.collection
             /\ \A i \in 1..Len(r.key) : r.key[i] \notin DOMAIN UpperToLower

\* the unit of D/A.postman_collection.json with E.postman_environment.json
\* has upserted the row with key d_e_a
C22_Witness ==
  \E unit \in AllUnits :
    /\ KeyInputs(unit).directory = <<"D">>
    /\ KeyInputs(unit).environment = Some(<<"E">>)
    /\ KeyInputs(unit).file = <<"A">> \o CollectionSuffix
    /\ \E r \in RowOfUnit(unit) : r.compositeKey = <<"d", "_", "e", "_", "a">>

\* C23: for a group whose environment file has no "name", the environment's
\* name is its file name without the .postman_environment.json suffix; the
\* key of every unit dispatched for the group and the key the results view
\* computes for the same collection are both the lowercased directory, that
\* name and the collection name joined by underscores (billing_default_checkout
\* for billing/, default.postman_environment.json and
\* checkout.postman_collection.json); once the unit's execution is stored the
\* view answers with a CollectionResult of that key that has an execution.
C23_NamelessEnvironmentNamedAfterFile ==
  \A c \in CycleIds :
    \A u \in UnitIds(c) :
      LET unit == cycles[c].units[u]
          group == cycles[c].groups[unit.g]
          col == group.Collections[unit.c]
          name == TrimSuffix(group.Environment.val.FileName, EnvironmentSuffix)
          key == ToLower(group.Directory) \o <<"_">> \o ToLower(name) \o <<"_">>
                   \o ToLower(TrimSuffix(col.Name, CollectionSuffix))
          \* the group's environment file is one whose JSON has no "name" or
          \* an empty one
          nameless ==
            /\ group.Environment.some
            /\ \E e \in ScannedDirectories :
                 /\ e.name = group.Directory
                 /\ \E i \in 1..Len(e.files) :
                      /\ e.files[i].name = group.Environment.val.FileName
                      /\ e.files[i].content = Json(<< >>)
      IN  (nameless /\ name # << >>) =>
            /\ group.Environment.val.Name = name
            /\ UnitKey(unit).key = key
            /\ ResultsKey(group, col).key = key
            /\ (filesystem = FsBilling) =>
                 key = <<"b", "i", "l", "l", "i", "n", "g", "_", "d", "e", "f", "a",
                         "u", "l", "t", "_", "c", "h", "e", "c", "k", "o", "u", "t">>
            /\ unit.executionId # 0 =>
                 \A response \in Responses :
                   \E i \in 1..Len(FlattenGroups(response.EnvironmentGroups)) :
                     LET cr == FlattenGroups(response.EnvironmentGroups)[i]
                     IN  cr.Collection.compositeKey = key /\ cr.Execution.some

\* the unit of billing/checkout with the environment default has stored its
\* execution and the results view shows it under billing_default_checkout
C23_Witness ==
  /\ filesystem = FsBilling
  /\ \E unit \in AllUnits : unit.executionId # 0
  /\ Responses # {}
  /\ \A response \in Responses :
       \E i \in 1..Len(FlattenGroups(response.EnvironmentGroups)) :
         LET cr == FlattenGroups(response.EnvironmentGroups)[i]
         IN  /\ cr.Execution.some
             /\ cr.Collection.compositeKey =
                  <<"b", "i", "l", "l", "i", "n", "g", "_", "d", "e", "f", "a",
                    "u", "l", "t", "_", "c", "h", "e", "c", "k", "o", "u", "t">>

\* white space characters a directory name may hold
Whitespace == {" ", "\t", "\n", "\r"}

\* C25: after a scan that did not fail, no group carries a first-level
\* subdirectory whose name holds a white space character, no group carries a
\* loose file of the root, and every other readable subdirectory that holds
\* a collection file has a group.
C25_WhitespaceDirectoryExcluded ==
  \A c \in ScannedCycles :
    \A i \in 1..Len(filesystem.entries) :
      LET e == filesystem.entries[i]
          gs == GroupsOfDirectory(cycles[c].groups, e.name)
      IN  /\ (e.isDir /\ \E k \in 1..Len(e.name) : e.name[k] \in Whitespace) => gs = << >>
          /\ ~e.isDir => gs = << >>
          /\ (/\ e.isDir
              /\ \A k \in 1..Len(e.name) : e.name[k] \notin Whitespace
              /\ e.readable
              /\ CollectionFilesOf(e.name, e.files) # << >>) => gs # << >>

\* the names of the files that are not directories and whose lowercased name
\* ends with the suffix
FilesEndingWith(files, suffix) ==
  {files[i].name : i \in {k \in 1..Len(files) :
                            ~files[k].isDir /\ HasSuffix(ToLower(files[k].name), suffix)}}

\* C26: in every group of a scanned directory the collections are exactly
\* the files of the directory whose name ends with .json and not with
\* .postman_environment.json, letter case ignored, and the environment, when
\* there is one, is a file whose name ends with .postman_environment.json,
\* letter case ignored; nested directories and other files are in no group.
C26_FilesClassifiedBySuffix ==
  \A c \in ScannedCycles :
    \A e \in ScannedDirectories :
      LET gs == GroupsOfDirectory(cycles[c].groups, e.name)
      IN  \A i \in 1..Len(gs) :
            /\ {gs[i].Collections[k].Name : k \in 1..Len(gs[i].Collections)}
                 = FilesEndingWith(e.files, JsonSuffix)
                     \ FilesEndingWith(e.files, EnvironmentSuffix)
            /\ gs[i].Environment.some =>
                 gs[i].Environment.val.FileName \in FilesEndingWith(e.files, EnvironmentSuffix)

\* the filesystem without its unreadable subdirectories and without its
\* environment files that cannot be read or are not JSON
WithoutBadItems(fs) ==
  [fs EXCEPT !.entries =
     [i \in 1..Len(SelectSeq(fs.entries, LAMBDA e : ~e.isDir \/ e.readable)) |->
        LET e == SelectSeq(fs.entries, LAMBDA x : ~x.isDir \/ x.readable)[i]
        IN  IF e.isDir
            THEN [e EXCEPT !.files = SelectSeq(@, LAMBDA f :
                   ~(/\ ~f.isDir
                     /\ Contains(ToLower(f.name), EnvironmentSuffix)
                     /\ f.content.kind # "json"))]
            ELSE e]]

\* C27: the scan of a cycle has failed exactly when the root directory is
\* missing or cannot be read, and then the cycle has no group; otherwise its
\* groups are the groups of the same filesystem without its unreadable
\* subdirectories and its unreadable or malformed environment files.
C27_OnlyRootFailsTheScan ==
  \A c \in CycleIds :
    cycles[c].phase # "Scanning" =>
      /\ cycles[c].scanOk = (filesystem.exists /\ filesystem.readable)
      /\ ~cycles[c].scanOk => cycles[c].groups = << >> /\ Ended(c)
      /\ cycles[c].scanOk =>
           cycles[c].groups = ScanGroups(WithoutBadItems(filesystem), perIteration).groups

\* a scan of the filesystem with an unreadable subdirectory and bad
\* environment files has returned the groups of the two other directories
C27_Witness ==
  \E c \in ScannedCycles :
    /\ filesystem = FsBadItems
    /\ WithoutBadItems(filesystem) # filesystem
    /\ Len(cycles[c].groups) = 2
    /\ cycles[c].groups[1].Directory = <<"d">>
    /\ cycles[c].groups[1].Environment.some
    /\ cycles[c].groups[2].Directory = <<"z">>
    /\ ~cycles[c].groups[2].Environment.some

\* C28: the environment name a unit hands to the Runner is empty exactly when
\* the unit has no environment file; when it has one the Runner receives the
\* environment component of the unit's composite key, and in both cases the
\* directory it receives is the directory component of that key.
C28_RunnerGetsKeyComponents ==
  \A unit \in AllUnits :
    /\ (UnitExecuteArgs(unit).environmentName = << >>) = ~unit.args.environmentPath.some
    /\ unit.args.environmentPath.some =>
         UnitExecuteArgs(unit).environmentName = UnitKey(unit).environment
    /\ UnitExecuteArgs(unit).directory = UnitKey(unit).directory

\* C29: in the step in which a unit with a stored TestExecution writes its
\* test results and no write fails, the rows added to the store are exactly
\* one per assertion of the Runner's result, each with the unit's execution
\* id and with the url, method, status, status code and response time of the
\* first request execution named as the assertion's linked execution, or
\* without url and method and with status "unknown" when there is none.
C29_OneTestResultPerAssertion ==
  [][\A c \in CycleIds : \A u \in UnitIds(c) :
       (/\ cycles[c].units[u].st = "stored"
        /\ cycles'[c].units[u].st = "done"
        /\ faults' = faults) =>
         LET unit == cycles[c].units[u]
             result == unit.result.val
             added == store'.testResults \ store.testResults
             \* the row t is the TestResult of assertion i of the result
             IsResultOf(t, i) ==
               LET test == result.Tests[i]
                   \* the request executions named as the assertion's
                   found == {k \in 1..Len(result.Executions) :
                               result.Executions[k].Name = test.ExecutionName}
               IN  /\ t.executionId = unit.executionId
                   /\ t.testName = test.Name
                   /\ t.passed = test.Passed
                   /\ t.error = test.Error
                   /\ IF found = {}
                      THEN /\ ~t.url.some
                           /\ ~t.method.some
                           /\ t.status = <<"u", "n", "k", "n", "o", "w", "n">>
                      ELSE LET first == result.Executions[
                                          CHOOSE k \in found : \A j \in found : k <= j]
                           IN  /\ t.url = Some(first.URL)
                               /\ t.method = Some(first.Method)
                               /\ t.status = first.Status
                               /\ t.statusCode = first.StatusCode
                               /\ t.responseTimeMs = first.ResponseTime
         IN  /\ unit.executionId # 0
             /\ Cardinality(added) = Len(result.Tests)
             /\ \A i \in 1..Len(result.Tests) :
                  Cardinality({t \in added : IsResultOf(t, i)}) = 1]_vars

\* the unit of the result with two assertions is done: one row has the url
\* of the first of the two requests of its name, the other has no url and
\* the status "unknown"
C29_Witness ==
  \E unit \in AllUnits :
    /\ unit.st = "done"
    /\ OutputsOf(unit) = {ResultJoined}
    /\ Cardinality(ResultsOfExecution(unit.executionId)) = 2
    /\ \E t \in ResultsOfExecution(unit.executionId) : t.url = Some(<<"u">>)
    /\ \E t \in ResultsOfExecution(unit.executionId) :
         ~t.url.some /\ t.status = <<"u", "n", "k", "n", "o", "w", "n">>

C30_PostRunStartsOneCycle ==
  /\ [](/\ \A i \in 1..Len(requests) :
             IF requests[i].method = "POST"
             THEN /\ requests[i].status = 200
                  /\ requests[i].cycle \in CycleIds
                  /\ cycles[requests[i].cycle].trigger = "manual"
                  /\ \A j \in 1..Len(requests) :
                       requests[j].cycle = requests[i].cycle => j = i
             ELSE requests[i].status = 405 /\ requests[i].cycle = 0
        /\ \A c \in CycleIds :
             cycles[c].trigger = "manual" =>
               \E i \in 1..Len(requests) : requests[i].cycle = c)
  /\ [][Len(requests') = Len(requests) + 1 =>
          /\ \A c \in CycleIds : cycles'[c] = cycles[c]
          /\ IF requests'[Len(requests')].method = "POST"
             THEN /\ Len(cycles') = Len(cycles) + 1
                  /\ cycles'[Len(cycles')].phase = "Scanning"
             ELSE cycles' = cycles]_vars

\* a POST was answered whose cycle has a unit that hangs, a request that was
\* not a POST was answered after it, and there is no other manual cycle
C30_Witness ==
  /\ Len(requests) = 2
  /\ requests[1].method = "POST"
  /\ requests[1].status = 200
  /\ \E u \in UnitIds(requests[1].cycle) : cycles[requests[1].cycle].units[u].st = "hung"
  /\ requests[2].method = "GET"
  /\ requests[2].status = 405
  /\ Cardinality({c \in CycleIds : cycles[c].trigger = "manual"}) = 1

\* the parameter is written as an integer: an optional sign and digits
IsNumeral(s) ==
  LET ds == IF s # << >> /\ Head(s) \in {"+", "-"} THEN Tail(s) ELSE s
  IN  ds # << >> /\ \A i \in 1..Len(ds) : \E k \in 1..Len(DecimalDigits) : DecimalDigits[k] = ds[i]

\* the integer the parameter writes is one int can hold
NumeralFitsInt(s) ==
  IF Head(s) = "-" THEN MagnitudeFits(Tail(s), IntLimitDigits(TRUE))
  ELSE MagnitudeFits(IF Head(s) = "+" THEN Tail(s) ELSE s, IntLimitDigits(FALSE))

\* the integer a numeral writes, capped at 200 (a numeral too great for int
\* is greater than the cap, one too small is below it)
NumeralCapped(s) ==
  IF NumeralFitsInt(s)
  THEN LET v == IF Head(s) = "-" THEN 0 - DigitsValue(Tail(s))
                ELSE DigitsValue(IF Head(s) = "+" THEN Tail(s) ELSE s)
       IN  IF v > 200 THEN 200 ELSE v
  ELSE IF Head(s) = "-" THEN 0 - 1 ELSE 200

\* C31 (as stated): the limit handed to the store is 50 when the limit
\* parameter is absent or is not written as an integer, is otherwise the
\* integer it writes capped at 200, and is never above 200; a request whose
\* collection_id is absent or not written as an integer is rejected and the
\* store is not asked.
C31_LimitDefaultsAndCaps ==
  \A i \in {k \in 1..Len(requests) : requests[k].path = "/api/history"} :
    LET r == requests[i]
    IN  /\ r.query.some =>
             /\ r.query.val.limit <= 200
             /\ r.query.val.limit =
                  IF r.limit = << >> \/ ~IsNumeral(r.limit) THEN 50
                  ELSE NumeralCapped(r.limit)
        /\ (r.collectionID = << >> \/ ~IsNumeral(r.collectionID)) =>
             ~r.query.some /\ r.status \in {400, 405} /\ ~r.body.some

\* C31 (amended): the limit handed to the store is 50 when the limit
\* parameter is absent, is not written as an integer or writes an integer
\* that int cannot hold, is otherwise that integer capped at 200, and is never
\* above 200; a request whose collection_id is absent, not written as an
\* integer or out of the range of int is rejected and the store is not asked,
\* and the store is asked with the collection_id that was written otherwise.
C31_LimitDefaultsOnParseFailureAndCaps ==
  \A i \in {k \in 1..Len(requests) : requests[k].path = "/api/history"} :
    LET r == requests[i]
        parsed(s) == s # << >> /\ IsNumeral(s) /\ NumeralFitsInt(s)
    IN  /\ r.query.some =>
             /\ r.query.val.limit <= 200
             /\ r.query.val.limit =
                  IF parsed(r.limit) THEN NumeralCapped(r.limit) ELSE 50
             /\ parsed(r.collectionID)
             /\ r.query.val.collectionID = DigitsValue(r.collectionID)
        /\ ~parsed(r.collectionID) =>
             ~r.query.some /\ r.status \in {400, 405} /\ ~r.body.some
        /\ (r.method = "GET" /\ parsed(r.collectionID)) => r.query.some

\* a request for 201 executions was answered with the executions the store
\* returned when asked for 200
C31_Witness ==
  \E i \in {k \in 1..Len(requests) : requests[k].path = "/api/history"} :
    /\ requests[i].limit = <<"2", "0", "1">>
    /\ requests[i].query = Some([collectionID |-> 1, limit |-> 200])
    /\ requests[i].status = 200
    /\ Len(requests[i].body.val) = 2

\* C32: a call of GetLatestResults in which any read fails, whichever it is,
\* returns an error and no LatestResults; a GET /api/results during which a
\* read of the store or the scan failed was answered with status 500 and
\* without a results body, and one during which nothing failed was answered
\* 200 with a body; a run cycle whose read failed publishes nothing.
C32_ReadFailureFailsTheRequest ==
  /\ \A failAt \in 1..LatestReads(store) :
       \A out \in GetLatestResultsOutcomes(store, perIteration, failAt) :
         out.err /\ ~out.results.some
  /\ \A i \in {k \in 1..Len(requests) : requests[k].path = "/api/results"} :
       LET r == requests[i]
       IN  r.method = "GET" =>
             IF r.failAt > 0 \/ ~r.scanOk
             THEN r.status = 500 /\ ~r.body.some
             ELSE r.status = 200 /\ r.body.some
  /\ \A c \in CycleIds :
       cycles[c].readError => cycles[c].updates = 0 /\ ~cycles[c].snapshot.some

\* a GET /api/results was answered while the store held two collections with
\* executions, and the last read of GetLatestResults (the test results of the
\* second execution) failed
C32_Witness ==
  \E i \in {k \in 1..Len(requests) : requests[k].path = "/api/results"} :
    /\ requests[i].method = "GET"
    /\ requests[i].failAt = 6
    /\ LatestReads(store) = 6
    /\ requests[i].status = 500

\* C33: two different units of one cycle (they differ in the directory, the
\* environment file or the collection file) never have the same composite
\* key, and never upsert the same Collection row.
C33_UnitsOfACycleHaveDistinctKeys ==
  \A c \in CycleIds : \A u, v \in UnitIds(c) :
    LET a == cycles[c].units[u]
        b == cycles[c].units[v]
    IN  (u # v /\ a.args # b.args) =>
          /\ UnitKey(a).key # UnitKey(b).key
          /\ (a.collectionId # 0 /\ b.collectionId # 0) => a.collectionId # b.collectionId

\* C34: two cycles are never in flight together unless one of them was
\* triggered manually; the cycle run by Start has ended before Start returns
\* and before the ticker goroutine exists; and a cycle triggered by a tick
\* begins only when every cycle begun by Start or by an earlier tick has
\* ended.
C34_TimerCyclesNeverOverlap ==
  /\ [](/\ \A c, d \in CycleIds :
             (c # d /\ InFlight(c) /\ InFlight(d)) =>
               cycles[c].trigger = "manual" \/ cycles[d].trigger = "manual"
        /\ (mainPc \in {"serving", "stopping", "stopped"} \/ loopPc # "none") =>
             cycles # << >> /\ cycles[1].trigger = "start" /\ Ended(1)
        /\ \A c \in CycleIds : cycles[c].trigger = "start" => c = 1)
  /\ [][(Len(cycles') = Len(cycles) + 1 /\ cycles'[Len(cycles')].trigger = "timer") =>
          \A c \in CycleIds : cycles[c].trigger # "manual" => Ended(c)]_vars

\* the cycle of Start has ended, and a cycle begun by a tick and a manual
\* cycle are in flight together
C34_Witness ==
  /\ Len(cycles) = 3
  /\ Ended(1)
  /\ \E c, d \in CycleIds :
       /\ cycles[c].trigger = "timer" /\ InFlight(c)
       /\ cycles[d].trigger = "manual" /\ InFlight(d)

\* C35: in every state failed_runs <= total_runs, and total_runs > 0 only
\* with last_run_time set (the statistics are read and written under one
\* mutex, so GetStats returns them as they are in a state); no step makes
\* total_runs or failed_runs smaller.
C35_FailedRunsAtMostTotalRuns ==
  /\ [](/\ failedRuns <= totalRuns
        /\ totalRuns > 0 => lastRunTime > 0)
  /\ [][totalRuns' >= totalRuns /\ failedRuns' >= failedRuns]_vars

\* C36: when every cycle has ended and every cycle has handed its results to
\* UpdateMetrics, the results last handed over are results GetLatestResults
\* returns for the store as it is then: they show every execution the cycles
\* have stored, and no older snapshot has replaced them.
C36_PublishedMetricsAreCurrent ==
  (/\ cycles # << >>
   /\ \A c \in CycleIds : Ended(c) /\ cycles[c].updates = 1) =>
    /\ published.some
    /\ published.val \in GetLatestResults(store, perIteration)

\* C37: in every LatestResults that GetLatestResults may return for the
\* store, the Execution of a CollectionResult is an execution of its own
\* Collection, none of that collection's executions started later, and the
\* Results are the stored test results of that execution; no two
\* CollectionResults show the same execution.
C37_ExecutionBelongsToItsCollection ==
  \A lr \in GetLatestResults(store, perIteration) :
    LET all == FlattenGroups(lr.EnvironmentGroups)
    IN  /\ \A i \in 1..Len(all) :
             /\ all[i].Execution.some
             /\ all[i].Execution.val.collectionId = all[i].Collection.id
             /\ all[i].Execution.val \in store.executions
             /\ \A e \in store.executions :
                  e.collectionId = all[i].Collection.id =>
                    e.startedAt <= all[i].Execution.val.startedAt
             /\ all[i].Results =
                  {r \in store.testResults : r.executionId = all[i].Execution.val.id}
        /\ \A i, j \in 1..Len(all) :
             i # j => all[i].Execution.val.id # all[j].Execution.val.id

\* C38: in every CollectionResult a call of GetLatestResults has returned,
\* units writing to the store meanwhile or not, a last success that is
\* present is an execution of the collection of the execution shown, it did
\* not start later than the execution shown, and when the execution shown has
\* tests and none failed the last success is that execution.
C38_LastSuccessNotAfterLatest ==
  \A i \in 1..Len(requests) :
    (requests[i].path = "GetLatestResults" /\ requests[i].results.some) =>
      LET all == FlattenGroups(requests[i].results.val.EnvironmentGroups)
      IN  \A k \in 1..Len(all) :
            LET exec == all[k].Execution.val
                ls == all[k].LastSuccessExecution
            IN  /\ ls.some =>
                     /\ ls.val.collectionId = exec.collectionId
                     /\ ls.val.startedAt <= exec.startedAt
                /\ (exec.totalTests > 0 /\ exec.failedTests = 0) =>
                     ls = Some(exec)

\* C39: a step that changes the store is the step of one unit, and it is the
\* upsert of a running unit (only the collections change), the execution of
\* an upserted unit (one TestExecution of the unit's Collection row is added)
\* or the test results of a unit whose execution is stored (only TestResults
\* of that execution are added).  A unit whose upsert or execution write
\* fails ends in that step, which leaves the store as it was and adds exactly
\* one to failed_runs, and a unit that has ended writes nothing more.  The
\* step that writes the test results adds one TestResult for every assertion
\* whose write did not fail, leaves failed_runs as it was and ends the unit
\* without a failure.
C39_WritesAreOrderedAndFailuresEndTheUnit ==
  [][\A c \in CycleIds : \A u \in UnitIds(c) :
       LET a == cycles[c].units[u]
           b == cycles'[c].units[u]
           others == \A d \in CycleIds : \A v \in UnitIds(d) :
                       <<d, v>> # <<c, u>> => cycles'[d].units[v] = cycles[d].units[v]
           rows == {r \in store'.testResults : r.executionId = a.executionId}
       IN  /\ Over(a) => b = a
           /\ (store' # store /\ b # a) =>
                /\ others
                /\ \/ /\ a.st = "running" /\ b.st = "upserted"
                      /\ store'.executions = store.executions
                      /\ store'.testResults = store.testResults
                      /\ \E r \in store'.collections : r.id = b.collectionId
                   \/ /\ a.st = "upserted" /\ b.st = "stored"
                      /\ store'.collections = store.collections
                      /\ store'.testResults = store.testResults
                      /\ \E e \in store'.executions \ store.executions :
                           /\ store'.executions = store.executions \cup {e}
                           /\ e.id = b.executionId
                           /\ e.collectionId = a.collectionId
                   \/ /\ a.st = "stored" /\ b.st = "done"
                      /\ store'.collections = store.collections
                      /\ store'.executions = store.executions
                      /\ store.testResults \subseteq store'.testResults
                      /\ \A r \in store'.testResults \ store.testResults :
                           r.executionId = a.executionId
           /\ (b # a /\ b.st = "failed" /\ b.failure \in {"upsert", "execution"}) =>
                /\ a.st = (IF b.failure = "upsert" THEN "running" ELSE "upserted")
                /\ store' = store
                /\ failedRuns' = failedRuns + 1
           /\ (a.st = "stored" /\ b # a) =>
                /\ b.st = "done" /\ b.failure = ""
                /\ failedRuns' = failedRuns
                /\ {r \in store.testResults : r.executionId = a.executionId} = {}
                /\ Cardinality(rows) = Len(a.result.val.Tests) - (faults' - faults)]_vars

\* a unit has ended without failure; the write of its first TestResult
\* failed and the second one is in the store
C39_Witness ==
  \E unit \in AllUnits :
    /\ unit.st = "done"
    /\ unit.failure = ""
    /\ OutputsOf(unit) = {ResultJoined}
    /\ faults = 1
    /\ failedRuns = 0
    /\ \E t \in ResultsOfExecution(unit.executionId) :
         /\ ResultsOfExecution(unit.executionId) = {t}
         /\ t.testName = <<"t">>

\* C40: a scanned directory that holds a collection file and environment
\* files none of which can be read and parsed yields exactly one group,
\* without environment, holding all its collection files; the cycle starts
\* one unit for each of them, which hands the Runner no environment path and
\* no environment name, computes the key <directory>_env_<collection>, and
\* upserts a Collection row of that key.
C40_UnparsedEnvironmentsRunWithoutEnvironment ==
  \A c \in ScannedCycles :
    \A e \in ScannedDirectories :
      LET cols == CollectionFilesOf(e.name, e.files)
          \* the files that the scanner takes for environment files
          envs == {i \in 1..Len(e.files) :
                     /\ ~e.files[i].isDir
                     /\ HasSuffix(ToLower(e.files[i].name), JsonSuffix)
                     /\ Contains(ToLower(e.files[i].name), EnvironmentSuffix)}
          gs == GroupsOfDirectory(cycles[c].groups, e.name)
          units(col) == {u \in UnitIds(c) :
                           /\ cycles[c].units[u].args.directoryName = e.name
                           /\ cycles[c].units[u].args.col = col}
      IN  (/\ cols # << >>
           /\ envs # {}
           /\ \A i \in envs : e.files[i].content.kind # "json") =>
            /\ Len(gs) = 1
            /\ ~gs[1].Environment.some
            /\ gs[1].Collections = cols
            /\ cycles[c].phase \notin {"Scanning", "Dispatching"} =>
                 \A k \in 1..Len(cols) :
                   /\ Cardinality(units(cols[k])) = 1
                   /\ \A u \in units(cols[k]) :
                        LET unit == cycles[c].units[u]
                        IN  /\ ~unit.args.environmentPath.some
                            /\ ~unit.args.environmentName.some
                            /\ UnitExecuteArgs(unit).environment = << >>
                            /\ UnitExecuteArgs(unit).environmentName = << >>
                            /\ UnitKey(unit).environment = <<"e", "n", "v">>
                            /\ UnitKey(unit).key =
                                 ToLower(e.name) \o <<"_", "e", "n", "v", "_">>
                                   \o UnitKey(unit).collection
                            /\ unit.collectionId # 0 =>
                                 \E r \in RowOfUnit(unit) :
                                   r.compositeKey = UnitKey(unit).key

\* the collection of directory z, whose only environment file is malformed,
\* has been executed and its execution is stored under the key z_env_a
C40_Witness ==
  /\ filesystem = FsBadItems
  /\ \E unit \in AllUnits :
       /\ unit.args.directoryName = <<"z">>
       /\ unit.st = "done"
       /\ \E r \in RowOfUnit(unit) :
            /\ r.compositeKey = <<"z", "_", "e", "n", "v", "_", "a">>
            /\ \E x \in store.executions : x.collectionId = r.id

====
